---- MODULE Spec2Model ----
(***************************************************************************)
(* State-machine model of the model-evaluation and solver-dispatch layer   *)
(* of scikit-learn-HMM: the K-fold generator, LinearModelCV.fit,           *)
(* ridge_regression, the SGD estimators' fit / partial_fit bookkeeping and *)
(* learning_curve with _translate_train_sizes.                             *)
(*                                                                         *)
(* Each subsystem has its own specification (SpecKFold, SpecCV, SpecRidge, *)
(* SpecSGD, SpecTranslate, SpecLC); the variables of the other subsystems  *)
(* stay at their idle values.                                              *)
(***************************************************************************)
EXTENDS Integers, Sequences, FiniteSets, TLC

VARIABLES
    \* ---- KFold (cross_validation.KFold)
    kf_n,          \* argument n
    kf_n_folds,    \* argument n_folds
    kf_shuffle,    \* argument shuffle
    kf_state,      \* "new" | "ready" | "ValueError"
    kf_idxs,       \* self.idxs
    kf_yielded,    \* the (train, test) pairs yielded so far by one iteration
    kf_frac,       \* whether the arguments n, n_folds are kf_n + 0.5, kf_n_folds + 0.5
    kf_pass,       \* 1 during the first iteration over the object, 2 during the second
    kf_first,      \* the pairs the first iteration yielded
    \* ---- LinearModelCV.fit
    cv_alphas,     \* self.alphas, in the caller's order
    cv_l1_ratios,  \* np.atleast_1d(self.l1_ratio)
    cv_mse,        \* test MSE of the model at (l1_ratio, fold, alpha)
    cv_state,      \* "new" | "fitted"
    cv_alpha_,     \* self.alpha_
    cv_l1_ratio_,  \* self.l1_ratio_
    cv_coef_,      \* self.coef_: the (alpha, l1_ratio) the final model was fit at
    cv_mse_path_,  \* self.mse_path_
    \* ---- ridge_regression
    rr_in,         \* the arguments of one call
    rr_state,      \* "new" | "returned" | "ValueError" | "UnboundLocalError"
    rr_solves,     \* the solvers run by the call, in order
    rr_coef,       \* which solver produced the returned coefficients
    rr_system,     \* the system conjugate gradient was run on, or "none"
    \* ---- SGD estimator (BaseSGDClassifier / BaseSGDRegressor)
    sgd_params,    \* constructor parameters: kind, warm_start, learning_rate, n_iter
    sgd_coef_,     \* self.coef_: <<>> for None, else one value per row
    sgd_intercept_,\* self.intercept_: <<>> for None, else one value per row
    sgd_t_,        \* self.t_: NoneT for None
    sgd_classes_,  \* self.classes_: 0 for None, else the number of classes
    sgd_calls,     \* number of fit / partial_fit calls made so far
    sgd_last,      \* what the last call did
    \* ---- _translate_train_sizes
    tr_train_sizes,\* argument train_sizes: its dtype and values
    tr_n_max,      \* argument n_max_training_samples
    tr_state,      \* "new" | "returned" | "ValueError"
    tr_out,        \* the returned train_sizes_abs
    tr_warned,     \* whether the duplicate warning was issued
    \* ---- learning_curve
    lc_in,         \* the arguments of the call
    lc_pc,         \* "new" | "running" | "done" | "ValueError"
    lc_error,      \* which check raised: "none" | "partial_fit" | "train_sizes"
    lc_base,       \* the caller's estimator object
    lc_cv,         \* cv = list(_check_cv(...)): <<>> until generated
    lc_train_sizes_abs, \* the translated sizes
    lc_next,       \* the next task to dispatch (tasks are numbered in dispatch order)
    lc_tasks,      \* the tasks in flight: task -> its private estimator and partial scores
    lc_out,        \* the results collected by Parallel: task -> result (<<>> while pending)
    lc_clones,     \* number of clone() calls so far
    lc_fits,       \* task -> the index arrays of its fit / partial_fit calls, in order
    lc_result,     \* the returned (train_sizes_abs, train_scores, test_scores)
    \* ---- enet_path / lasso_path
    en_in,         \* the arguments of one enet_path call
    en_pc,         \* "new" | "loop" | "returned" | "UnboundLocalError"
    en_alphas,     \* the local alphas after line 392 (or the generated grid)
    en_i,          \* the loop index i of line 409 (0-based)
    en_coef_,      \* the local coef_: the start of the next solve
    en_coefs,      \* the columns of coefs, as allocated by np.empty
    en_dual_gaps,  \* dual_gaps, as allocated by np.empty
    en_models,     \* the list models
    en_warnings,   \* the loop indices at which the convergence warning was issued
    en_starts,     \* the coefficient vector each solve so far started from
    en_result,      \* what the call returned
    \* ---- _RidgeGCV.fit
    gcv_in,        \* the estimator's parameters and the arguments of fit
    gcv_state,     \* "new" | "fitted" | "TypeError" | "ValueError"
    gcv_mode,      \* the strategy fit settled on: the local gcv_mode
    gcv_warned,    \* whether the forced-eigen warning was issued
    gcv_alpha_,    \* self.alpha_
    gcv_dual_coef_, \* self.dual_coef_
    gcv_coef_,      \* self.coef_
    \* ---- StratifiedKFold
    sk_labels,     \* the labels y given to the constructor
    sk_n_folds,    \* n_folds: its integer part
    sk_frac,       \* whether the n_folds argument is sk_n_folds + 0.5
    sk_state,      \* "new" | "ready" | "ValueError"
    sk_warnings,   \* number of warnings issued by the constructor
    sk_test_folds, \* self.test_folds: the test fold of each sample
    sk_yielded,     \* the (train, test) pairs yielded so far
    \* ---- LeaveOneLabelOut / LeavePLabelOut
    lo_kind,       \* "LeaveOneLabelOut" | "LeavePLabelOut"
    lo_p,          \* p of LeavePLabelOut (1 for LeaveOneLabelOut)
    lo_caller,     \* the caller's label array, as it is now
    lo_given,      \* the content of the caller's array when the generator was constructed
    lo_labels,     \* self.labels
    lo_unique,     \* self.unique_labels
    lo_state,      \* "new" | "ready"
    lo_yielded,     \* the (train, test) pairs yielded so far
    \* ---- ShuffleSplit
    ss_n,          \* n
    ss_n_iter,     \* n_iter
    ss_n_train,    \* the resolved train size
    ss_n_test,     \* the resolved test size
    ss_random_state, \* the random_state argument: [kind, seed]
    ss_global,     \* the global generator of numpy: its seed and the draws made from it
    ss_instance,   \* the caller's RandomState object: its seed and the draws made from it
    ss_rng,        \* the generator of the running iteration
    ss_state,      \* "new" | "ready" | "ValueError"
    ss_pass,       \* 1 during the first iteration over the object, 2 during the second
    ss_first,      \* the pairs the first iteration yielded
    ss_yielded,     \* the pairs yielded so far by the running iteration
    \* ---- SGD hyper-parameters
    sp_kind,       \* "classifier" or "regressor"
    sp_params,     \* the hyper-parameters stored on the estimator
    sp_state,      \* "new", "constructed" or "failed"
    sp_last,        \* the last call: op, the parameters it left, error
    \* ---- multi-class SGD
    mc_in,         \* the call: n_classes, n_samples, n_iter, y, ...
    mc_pc,         \* "dispatch" or "done"
    mc_coef_,      \* coef_, one row per class
    mc_intercept_, \* intercept_, one entry per class
    mc_t_,         \* t_
    mc_tasks,       \* per class: the state of its fit_binary task
    \* ---- RidgeClassifierCV.fit
    rc_in,         \* y, the class weights and the sample_weight the caller built
    rc_sample_weight, \* the caller's sample_weight object as it is now
    rc_used        \* per fit call, the sample weights handed to _BaseRidgeCV.fit

kfVars ==
    <<kf_n, kf_n_folds, kf_shuffle, kf_state, kf_idxs, kf_yielded,
      kf_frac, kf_pass, kf_first>>
cvVars == <<cv_alphas, cv_l1_ratios, cv_mse, cv_state, cv_alpha_, cv_l1_ratio_,
            cv_coef_, cv_mse_path_>>
rrVars == <<rr_in, rr_state, rr_solves, rr_coef, rr_system>>
sgdVars == <<sgd_params, sgd_coef_, sgd_intercept_, sgd_t_, sgd_classes_,
             sgd_calls, sgd_last>>
trVars == <<tr_train_sizes, tr_n_max, tr_state, tr_out, tr_warned>>
lcVars == <<lc_in, lc_pc, lc_error, lc_base, lc_cv, lc_train_sizes_abs, lc_next,
            lc_tasks, lc_out, lc_clones, lc_fits, lc_result>>
enVars == <<en_in, en_pc, en_alphas, en_i, en_coef_, en_coefs, en_dual_gaps, en_models, en_warnings, en_starts, en_result>>
gcvVars ==
    <<gcv_in, gcv_state, gcv_mode, gcv_warned, gcv_alpha_, gcv_dual_coef_,
      gcv_coef_>>
skVars ==
    <<sk_labels, sk_n_folds, sk_frac, sk_state, sk_warnings, sk_test_folds,
      sk_yielded>>
loVars ==
    <<lo_kind, lo_p, lo_caller, lo_given, lo_labels, lo_unique,
      lo_state, lo_yielded>>
ssVars ==
    <<ss_n, ss_n_iter, ss_n_train, ss_n_test, ss_random_state, ss_global,
      ss_instance, ss_rng, ss_state, ss_pass, ss_first, ss_yielded>>
spVars ==
    <<sp_kind, sp_params, sp_state, sp_last>>
mcVars ==
    <<mc_in, mc_pc, mc_coef_, mc_intercept_, mc_t_, mc_tasks>>
rcVars ==
    <<rc_in, rc_sample_weight, rc_used>>
vars ==
    <<kfVars, cvVars, rrVars, sgdVars, trVars, lcVars, enVars, gcvVars, skVars, loVars, ssVars, spVars, mcVars, rcVars>>

----------------------------------------------------------------------------
(* Generic helpers on sets and sequences. *)

Range(s) == {s[i] : i \in DOMAIN s}

Min(S) == CHOOSE x \in S : \A y \in S : x <= y

Max(S) == CHOOSE x \in S : \A y \in S : x >= y

RECURSIVE SumSeq(_)
SumSeq(s) == IF s = <<>> THEN 0 ELSE s[1] + SumSeq(Tail(s))

\* np.sort / np.unique order: the elements of a set of integers, ascending
RECURSIVE SortedSeq(_)
SortedSeq(S) == IF S = {} THEN <<>> ELSE <<Min(S)>> \o SortedSeq(S \ {Min(S)})

\* python slice s[a:b] with 0-based a, b (clipped to the length as python does)
Slice(s, a, b) ==
    LET lo == IF a > Len(s) THEN Len(s) ELSE a
        hi == IF b > Len(s) THEN Len(s) ELSE b
    IN  IF hi <= lo THEN <<>> ELSE SubSeq(s, lo + 1, hi)

\* all sequences over S of length lo..hi
SeqsOf(S, lo, hi) == UNION {[1..m -> S] : m \in lo..hi}

\* the permutations of range(n), as 1-indexed sequences of 0-based indices
Perms(n) == {p \in [1..n -> 0..(n - 1)] : \A i, j \in 1..n : i # j => p[i] # p[j]}

----------------------------------------------------------------------------
(* Bounds of the model. *)

MaxN == 4

----------------------------------------------------------------------------
(* KFold(n, n_folds, shuffle): contiguous blocks of range(n) (of a          *)
(* permutation of it when shuffled), the first n % n_folds blocks one       *)
(* longer; fold i tests on block i and trains on the rest.                  *)

arange(n) == [i \in 1..n |-> i - 1]

fold_sizes_short(n, k) == [i \in 1..k |-> n \div k]

\* fold_sizes = (n // n_folds) * ones(n_folds); fold_sizes[:n % n_folds] += 1
fold_sizes(n, k) == [i \in 1..k |-> (n \div k) + (IF i <= n % k THEN 1 ELSE 0)]

\* start offset of block i (1-based): sum of the sizes of the blocks before it
fold_start(n, k, i) == SumSeq(SubSeq(fold_sizes(n, k), 1, i - 1))

\* the i-th test block, as the sorted index array a boolean mask gives
test_index(idxs, n, k, i) ==
    SortedSeq(Range(Slice(idxs, fold_start(n, k, i),
                          fold_start(n, k, i) + fold_sizes(n, k)[i])))

\* train = logical_not(test mask)
train_index(idxs, n, k, i) ==
    SortedSeq((0..(n - 1)) \ Range(test_index(idxs, n, k, i)))

KFoldFold(idxs, n, k, i) ==
    [train |-> train_index(idxs, n, k, i), test |-> test_index(idxs, n, k, i)]

\* the whole fold list of KFold(n, k) without shuffling
KFoldList(n, k) == [i \in 1..k |-> KFoldFold(arange(n), n, k, i)]

\* abs(x - int(x)) >= eps: the argument is not an integer
not_integer(frac) == frac

kfold_args_invalid_unless_fraction(n, n_folds, frac) ==
    n_folds <= 1 \/ n_folds > n

\* the checks of KFold.__init__: n and n_folds integers, 1 < n_folds <= n
kfold_args_invalid(n, n_folds, frac) ==
    \/ not_integer(frac.n)
    \/ not_integer(frac.n_folds)
    \/ n_folds <= 1
    \/ n_folds > n

KFoldIdle ==
    /\ kf_n = 0 /\ kf_n_folds = 0 /\ kf_shuffle = FALSE
    /\ kf_state = "idle" /\ kf_idxs = <<>> /\ kf_yielded = <<>>
    /\ kf_frac = <<>> /\ kf_pass = 0 /\ kf_first = <<>>

KFoldInit ==
    /\ kf_n \in 0..MaxN
    /\ kf_n_folds \in 0..(MaxN + 1)
    /\ kf_frac \in [n : BOOLEAN, n_folds : BOOLEAN]
    /\ kf_shuffle \in BOOLEAN
    /\ kf_state = "new"
    /\ kf_idxs = <<>>
    /\ kf_yielded = <<>>
    /\ kf_pass = 1
    /\ kf_first = <<>>

\* KFold.__init__: a non-integer n or n_folds, n_folds <= 1 or n_folds > n
\* is a configuration error; a shuffled KFold permutes its indices here
KFoldConstruct ==
    /\ kf_state = "new"
    /\ IF kfold_args_invalid(kf_n, kf_n_folds, kf_frac)
       THEN /\ kf_state' = "ValueError"
            /\ kf_idxs' = kf_idxs
       ELSE /\ kf_state' = "ready"
            /\ kf_idxs' \in (IF kf_shuffle THEN Perms(kf_n) ELSE {arange(kf_n)})
    /\ UNCHANGED <<kf_n, kf_n_folds, kf_shuffle, kf_yielded, kf_frac, kf_pass, kf_first>>

\* one step of the iteration: yield the next (train, test) pair
KFoldYield ==
    /\ kf_state = "ready"
    /\ Len(kf_yielded) < kf_n_folds
    /\ kf_yielded' = Append(kf_yielded,
                            KFoldFold(kf_idxs, kf_n, kf_n_folds, Len(kf_yielded) + 1))
    /\ UNCHANGED <<kf_n, kf_n_folds, kf_shuffle, kf_state, kf_idxs,
                   kf_frac, kf_pass, kf_first>>

\* the caller starts a second iteration over the same object
KFoldIterateAgain ==
    /\ kf_state = "ready"
    /\ Len(kf_yielded) = kf_n_folds
    /\ kf_pass = 1
    /\ kf_pass' = 2
    /\ kf_first' = kf_yielded
    /\ kf_yielded' = <<>>
    /\ UNCHANGED <<kf_n, kf_n_folds, kf_shuffle, kf_state, kf_idxs, kf_frac>>

KFoldExhausted == kf_state = "ready" /\ Len(kf_yielded) = kf_n_folds

----------------------------------------------------------------------------
(* LinearModelCV.fit: cross-validated choice of (alpha, l1_ratio) along the *)
(* regularization path, then a refit on the full data.                      *)
(* Alphas and l1_ratios are small positive integers standing for the        *)
(* caller's floats; cv_mse[l][f][a] is the test MSE on fold f of the model  *)
(* solved at l1_ratio l and alpha a.                                        *)

MaxAlpha == 2

MaxL1 == 2

MaxMse == 1

CvFolds == 2

RECURSIVE SortAsc(_)
\* np.sort: ascending, duplicates kept
SortAsc(s) ==
    IF s = <<>> THEN <<>>
    ELSE LET m == Min(Range(s))
             i == CHOOSE j \in DOMAIN s : s[j] = m
         IN  <<m>> \o SortAsc(SubSeq(s, 1, i - 1) \o SubSeq(s, i + 1, Len(s)))

Reverse(s) == [i \in 1..Len(s) |-> s[Len(s) + 1 - i]]

path_alphas_unsorted(alphas) == alphas

\* enet_path: alphas = np.sort(alphas)[::-1]
path_alphas(alphas) == Reverse(SortAsc(alphas))

\* _path_residuals: this_mses[i] is the test MSE at the i-th alpha RETURNED
\* by the path, i.e. at the i-th largest alpha
this_mses(l1_ratio, fold, alphas) ==
    [i \in 1..Len(alphas) |-> cv_mse[l1_ratio][fold][path_alphas(alphas)[i]]]

\* mse_alphas = np.array([m[0] for m in group]): one row per fold
mse_alphas(l1_ratio, alphas) ==
    [f \in 1..CvFolds |-> this_mses(l1_ratio, f, alphas)]

\* np.mean(mse_alphas, axis=0), kept as the sum over the folds: every mean
\* of the grid has the same denominator CvFolds
mean_mse(l1_ratio, alphas) ==
    [i \in 1..Len(alphas) |->
        SumSeq([f \in 1..CvFolds |-> mse_alphas(l1_ratio, alphas)[f][i]])]

\* np.argmin: the first index of the minimum (1-based here)
argmin(v) == Min({i \in DOMAIN v : \A j \in DOMAIN v : v[i] <= v[j]})

\* np.inf for best_mse: above every sum of CvFolds values
InfMse == CvFolds * MaxMse + 1

\* best_alpha = alphas[i_best_alpha]: indexes self.alphas, the caller's list
alpha_at(alphas, i) == alphas[i]

RECURSIVE best_of(_, _, _)
\* the loop over the l1_ratio groups, carrying (best_mse, best_alpha,
\* best_l1_ratio)
best_of(l1s, alphas, best) ==
    IF l1s = <<>> THEN best
    ELSE LET mse == mean_mse(Head(l1s), alphas)
             i_best_alpha == argmin(mse)
             this_best_mse == mse[i_best_alpha]
         IN  best_of(Tail(l1s), alphas,
                     IF this_best_mse < best.mse
                     THEN [mse |-> this_best_mse,
                           alpha |-> alpha_at(alphas, i_best_alpha),
                           l1_ratio |-> Head(l1s)]
                     ELSE best)

\* the distinct-valued sequences over 1..m of length 1..m
DistinctSeqs(m) ==
    {s \in SeqsOf(1..m, 1, m) : \A i, j \in DOMAIN s : i # j => s[i] # s[j]}

CVIdle ==
    /\ cv_alphas = <<>> /\ cv_l1_ratios = <<>> /\ cv_mse = <<>>
    /\ cv_state = "idle" /\ cv_alpha_ = 0 /\ cv_l1_ratio_ = 0
    /\ cv_coef_ = <<>> /\ cv_mse_path_ = <<>>

CVInit ==
    /\ cv_alphas \in DistinctSeqs(MaxAlpha)
    /\ cv_l1_ratios \in DistinctSeqs(MaxL1)
    /\ cv_mse \in [1..MaxL1 -> [1..CvFolds -> [1..MaxAlpha -> 0..MaxMse]]]
    /\ cv_state = "new"
    /\ cv_alpha_ = 0
    /\ cv_l1_ratio_ = 0
    /\ cv_coef_ = <<>>
    /\ cv_mse_path_ = <<>>

\* LinearModelCV.fit with self.alphas given
LinearModelCVFit ==
    /\ cv_state = "new"
    /\ LET best == best_of(cv_l1_ratios, cv_alphas,
                           [mse |-> InfMse, alpha |-> 0, l1_ratio |-> 0])
       IN  /\ cv_l1_ratio_' = best.l1_ratio
           /\ cv_alpha_' = best.alpha
           \* model.alpha = best_alpha; model.l1_ratio = best_l1_ratio;
           \* model.fit(X, y); self.coef_ = model.coef_
           /\ cv_coef_' = [alpha |-> best.alpha, l1_ratio |-> best.l1_ratio,
                           data |-> "full"]
    /\ cv_mse_path_' = [l \in 1..Len(cv_l1_ratios) |->
                           [i \in 1..Len(cv_alphas) |->
                               [f \in 1..CvFolds |->
                                   mse_alphas(cv_l1_ratios[l], cv_alphas)[f][i]]]]
    /\ cv_state' = "fitted"
    /\ UNCHANGED <<cv_alphas, cv_l1_ratios, cv_mse>>

----------------------------------------------------------------------------
(* ridge_regression(X, y, alpha, sample_weight, solver): solver dispatch.   *)
(* The numerical kernels are outside the model; a call is described by the  *)
(* facts the dispatch reads: the solver name, whether X is a dense array,   *)
(* whether sample weights are given, whether n_features > n_samples, and    *)
(* whether the Cholesky factorisation raises LinAlgError.                   *)

SolverNames == {"auto", "svd", "dense_cholesky", "lsqr", "sparse_cg", "bogus"}

RidgeInputs ==
    {r \in [solver : SolverNames,
            dense : BOOLEAN,          \* hasattr(X, '__array__')
            has_sw : BOOLEAN,         \* sample_weight is an array or != 1.0
            wide : BOOLEAN,           \* n_features > n_samples
            singular : BOOLEAN,       \* linalg.solve raises LinAlgError
            has_lsqr : BOOLEAN,       \* hasattr(sp_linalg, 'lsqr')
            samples_match : BOOLEAN,  \* X.shape[0] == y.shape[0]
            alpha_ok : BOOLEAN] :     \* alpha.size in [1, n_targets]
        r.solver # "lsqr" => r.has_lsqr}

\* lines 247-263: the solver name after 'auto', the lsqr fallback and the
\* sample-weight fallback
resolved_solver(r) ==
    LET s1 == IF r.solver = "auto"
              THEN (IF r.dense THEN "dense_cholesky" ELSE "sparse_cg")
              ELSE IF r.solver = "lsqr" /\ ~r.has_lsqr THEN "sparse_cg"
              ELSE r.solver
    IN  IF r.has_sw /\ s1 # "dense_cholesky" THEN "dense_cholesky" ELSE s1

\* lines 275-276: the ValueError for an unknown solver is built but never
\* raised, so the statement has no effect
unknown_solver_raises(solver) == FALSE

\* lines 284-300: the dense_cholesky branch.  In the kernel form a
\* LinAlgError only sets solver = 'svd'; the next statement then reads
\* dual_coef, which was never bound.
cholesky_branch(r) ==
    IF r.wide \/ r.has_sw
    THEN IF r.singular
         THEN [state |-> "UnboundLocalError",
               solves |-> <<"_solve_dense_cholesky_kernel">>,
               coef |-> "none", solver |-> "svd"]
         ELSE [state |-> "running",
               solves |-> <<"_solve_dense_cholesky_kernel">>,
               coef |-> "cholesky_kernel", solver |-> "dense_cholesky"]
    ELSE IF r.singular
         THEN [state |-> "running", solves |-> <<"_solve_dense_cholesky">>,
               coef |-> "none", solver |-> "svd"]
         ELSE [state |-> "running", solves |-> <<"_solve_dense_cholesky">>,
               coef |-> "cholesky", solver |-> "dense_cholesky"]

\* lines 278-300: the if / elif chain on the solver name
solver_branch(r, solver) ==
    IF solver = "sparse_cg"
    THEN [state |-> "running", solves |-> <<"_solve_sparse_cg">>,
          coef |-> "sparse_cg", solver |-> solver]
    ELSE IF solver = "lsqr"
    THEN [state |-> "running", solves |-> <<"_solve_lsqr">>,
          coef |-> "lsqr", solver |-> solver]
    ELSE IF solver = "dense_cholesky"
    THEN cholesky_branch(r)
    ELSE [state |-> "running", solves |-> <<>>, coef |-> "none",
          solver |-> solver]

\* lines 302-309: the svd step, then the read of coef on return
svd_and_return(b) ==
    IF b.state # "running" THEN b
    ELSE LET c == IF b.solver = "svd"
                  THEN [b EXCEPT !.solves = Append(@, "_solve_svd"),
                                 !.coef = "svd"]
                  ELSE b
         IN  IF c.coef = "none"
             THEN [c EXCEPT !.state = "UnboundLocalError"]
             ELSE [c EXCEPT !.state = "returned"]

\* conjugate gradient always on the n_features-sized system
sparse_cg_system_primal(r) == "n_features"

\* _solve_sparse_cg, lines 36-65: the operator handed to cg is
\* (n_samples, n_samples) when n_features > n_samples and
\* (n_features, n_features) otherwise
sparse_cg_system(r) == IF r.wide THEN "n_samples" ELSE "n_features"

ridge_result(r) ==
    IF ~r.samples_match \/ ~r.alpha_ok \/ unknown_solver_raises(resolved_solver(r))
    THEN [state |-> "ValueError", solves |-> <<>>, coef |-> "none",
          solver |-> resolved_solver(r)]
    ELSE svd_and_return(solver_branch(r, resolved_solver(r)))

RidgeIdle ==
    /\ rr_in = <<>> /\ rr_state = "idle" /\ rr_solves = <<>> /\ rr_coef = "none"
    /\ rr_system = "none"

RidgeInit ==
    /\ rr_in \in RidgeInputs
    /\ rr_state = "new"
    /\ rr_solves = <<>>
    /\ rr_coef = "none"
    /\ rr_system = "none"

\* one call of ridge_regression
RidgeRegression ==
    /\ rr_state = "new"
    /\ rr_state' = ridge_result(rr_in).state
    /\ rr_solves' = ridge_result(rr_in).solves
    /\ rr_coef' = ridge_result(rr_in).coef
    /\ rr_system' = IF "_solve_sparse_cg" \in Range(ridge_result(rr_in).solves)
                    THEN sparse_cg_system(rr_in) ELSE "none"
    /\ UNCHANGED rr_in

----------------------------------------------------------------------------
(* SGD estimators: the bookkeeping of fit / partial_fit around plain_sgd.   *)
(* A coefficient (or intercept) row is an abstract value naming where it    *)
(* came from: allocated zeros, a caller's coef_init / intercept_init, or    *)
(* row i of the result of plain_sgd in call number k.  Label sets are       *)
(* identified with their size.                                              *)

MaxCalls == 2

MaxBatch == 2

MaxClasses == 3

MaxNIter == 2

\* self.t_ = None
NoneT == -1

\* _init_t with learning_rate='optimal' at the default alpha=0.0001 and the
\* hinge loss: typw = 10, eta0 = 10, t_ = 1 / (eta0 * alpha)
OptimalT0 == 1000

ZeroRow == [src |-> "zeros", call |-> 0, row |-> 0]

UserRow(i) == [src |-> "user", call |-> 0, row |-> i]

SgdRow(k, i) == [src |-> "sgd", call |-> k, row |-> i]

\* rows of coef_ / intercept_ for n_classes classes: (n_classes, n_features)
\* when n_classes > 2, a single vector otherwise
NRows(n_classes) == IF n_classes > 2 THEN n_classes ELSE 1

zeros(m) == [i \in 1..m |-> ZeroRow]

UserRows(m) == [i \in 1..m |-> UserRow(i)]

\* BaseSGD._init_t
init_t(learning_rate) == IF learning_rate = "optimal" THEN OptimalT0 ELSE 1

Estimator == [coef_ |-> sgd_coef_, intercept_ |-> sgd_intercept_,
              t_ |-> sgd_t_, classes_ |-> sgd_classes_]

NoStart == [coef |-> <<>>, intercept |-> <<>>, t |-> NoneT]

\* the result of a handler: the estimator as the handler leaves it, the
\* error it raised ("none" when it returned), and the (coef, intercept, t)
\* it handed to plain_sgd
Raised(e, err) == [e |-> e, error |-> err, start |-> NoStart]

\* BaseSGD._allocate_parameter_mem: coef_ is assigned before intercept_init
\* is validated
allocate_parameter_mem(e, n_classes, coef_init, intercept_init) ==
    IF coef_init # <<>> /\ Len(coef_init) # NRows(n_classes)
    THEN Raised(e, "ValueError")
    ELSE LET e1 == [e EXCEPT !.coef_ = IF coef_init # <<>> THEN coef_init
                                       ELSE zeros(NRows(n_classes))]
         IN  IF intercept_init # <<>> /\ Len(intercept_init) # NRows(n_classes)
             THEN Raised(e1, "ValueError")
             ELSE [e |-> [e1 EXCEPT !.intercept_ =
                                IF intercept_init # <<>> THEN intercept_init
                                ELSE zeros(NRows(n_classes))],
                   error |-> "none", start |-> NoStart]

\* utils.multiclass._check_partial_fit_first_call
check_partial_fit_first_call(e, classes) ==
    IF e.classes_ = 0 /\ classes = 0 THEN Raised(e, "ValueError")
    ELSE IF classes # 0 /\ e.classes_ # 0 /\ e.classes_ # classes
    THEN Raised(e, "ValueError")
    ELSE [e |-> IF classes # 0 /\ e.classes_ = 0
                THEN [e EXCEPT !.classes_ = classes] ELSE e,
          error |-> "none", start |-> NoStart]

\* if self.t_ is None: self._init_t(loss_function)
with_t(e, p) == IF e.t_ = NoneT THEN [e EXCEPT !.t_ = init_t(p.learning_rate)] ELSE e

t_after_no_iter(t, n_iter, n_samples) == t + n_samples

\* self.t_ += n_iter * n_samples
t_after(t, n_iter, n_samples) == t + n_iter * n_samples

\* _fit_binary / _fit_multiclass / _fit_regressor followed by the update of
\* t_: plain_sgd starts from the current coef_, intercept_ and t_, and its
\* results replace coef_ and intercept_ row by row
train(e, k, n_iter, n_samples) ==
    [e |-> [e EXCEPT !.coef_ = [i \in 1..Len(e.coef_) |-> SgdRow(k, i)],
                     !.intercept_ = [i \in 1..Len(e.intercept_) |-> SgdRow(k, i)],
                     !.t_ = t_after(e.t_, n_iter, n_samples)],
     error |-> "none",
     start |-> [coef |-> e.coef_, intercept |-> e.intercept_, t |-> e.t_]]

\* BaseSGDClassifier._partial_fit
clf_partial_fit(e, p, k, a, n_iter, classes, coef_init, intercept_init) ==
    IF a.defect = "xy" THEN Raised(e, "ValueError")
    ELSE LET c == check_partial_fit_first_call(e, classes)
         IN  IF c.error # "none" THEN c
             ELSE IF a.defect = "sw" THEN Raised(c.e, "ValueError")
             ELSE LET m == IF c.e.coef_ = <<>> \/ coef_init # <<>>
                           THEN allocate_parameter_mem(c.e, c.e.classes_,
                                                       coef_init, intercept_init)
                           ELSE c
                  IN  IF m.error # "none" THEN m
                      ELSE IF m.e.classes_ < 2
                      THEN Raised(with_t(m.e, p), "ValueError")
                      ELSE train(with_t(m.e, p), k, n_iter, a.n)

\* the coefficients a warm-started _fit passes on as coef_init
warm_coef_init(e, coef_init) == IF coef_init = <<>> THEN e.coef_ ELSE coef_init

warm_intercept_init(e, intercept_init) ==
    IF intercept_init = <<>> THEN e.intercept_ ELSE intercept_init

clf_reset_keep_t(e, warm) ==
    IF warm THEN [e EXCEPT !.classes_ = 0]
    ELSE [e EXCEPT !.classes_ = 0, !.coef_ = <<>>, !.intercept_ = <<>>,
                   !.t_ = NoneT]

\* BaseSGDClassifier._fit, lines 373-401: classes_ is cleared, coef_ and
\* intercept_ are kept only on a warm start, and t_ is cleared in either
\* case ("Clear iteration count for multiple call to fit")
clf_reset(e, warm) ==
    IF warm THEN [e EXCEPT !.classes_ = 0, !.t_ = NoneT]
    ELSE [e EXCEPT !.classes_ = 0, !.coef_ = <<>>, !.intercept_ = <<>>,
                   !.t_ = NoneT]

\* BaseSGDClassifier._fit
clf_fit(e, p, k, a) ==
    LET warm == p.warm_start /\ e.coef_ # <<>>
    IN  clf_partial_fit(clf_reset(e, warm), p, k, a, p.n_iter, a.classes,
                        IF warm THEN warm_coef_init(e, a.coef_init)
                        ELSE a.coef_init,
                        IF warm THEN warm_intercept_init(e, a.intercept_init)
                        ELSE a.intercept_init)

\* BaseSGDRegressor._partial_fit
reg_partial_fit(e, p, k, a, n_iter, coef_init, intercept_init) ==
    IF a.defect \in {"xy", "sw"} THEN Raised(e, "ValueError")
    ELSE LET m == IF e.coef_ = <<>>
                  THEN allocate_parameter_mem(e, 1, coef_init, intercept_init)
                  ELSE [e |-> e, error |-> "none", start |-> NoStart]
         IN  IF m.error # "none" THEN m
             ELSE train(with_t(m.e, p), k, n_iter, a.n)

\* BaseSGDRegressor._fit, lines 828-838
reg_reset(e, warm) ==
    IF warm THEN [e EXCEPT !.t_ = NoneT]
    ELSE [e EXCEPT !.coef_ = <<>>, !.intercept_ = <<>>, !.t_ = NoneT]

\* BaseSGDRegressor._fit
reg_fit(e, p, k, a) ==
    LET warm == p.warm_start /\ e.coef_ # <<>>
    IN  reg_partial_fit(reg_reset(e, warm), p, k, a, p.n_iter,
                        IF warm THEN warm_coef_init(e, a.coef_init)
                        ELSE a.coef_init,
                        IF warm THEN warm_intercept_init(e, a.intercept_init)
                        ELSE a.intercept_init)

\* the arguments of a fit call: n samples, n_classes = len(np.unique(y)),
\* optional coef_init / intercept_init of the right or of a wrong shape,
\* and at most one defect: y of another length than X ("xy") or
\* sample_weight of another length ("sw")
InitChoices(n_classes) ==
    {<<>>, UserRows(NRows(n_classes)), UserRows(NRows(n_classes) + 1)}

FitArgs(kind) ==
    {a \in [n : 1..MaxBatch, defect : {"none", "xy", "sw"},
            classes : 1..MaxClasses,
            coef_init : UNION {InitChoices(c) : c \in 1..MaxClasses},
            intercept_init : UNION {InitChoices(c) : c \in 1..MaxClasses}] :
        /\ a.coef_init \in InitChoices(a.classes)
        /\ a.intercept_init \in InitChoices(a.classes)
        /\ kind = "regressor" => a.classes = 1}

\* the arguments of a partial_fit call; classes = 0 stands for classes=None
PartialFitArgs(kind) ==
    {a \in [n : 1..MaxBatch, defect : {"none", "xy", "sw"},
            classes : 0..MaxClasses] :
        kind = "regressor" => a.classes = 0}

SGDIdle ==
    /\ sgd_params = <<>> /\ sgd_coef_ = <<>> /\ sgd_intercept_ = <<>>
    /\ sgd_t_ = NoneT /\ sgd_classes_ = 0 /\ sgd_calls = 0 /\ sgd_last = <<>>

\* BaseSGD.__init__: coef_ = None, t_ = None, classes_ = None
SGDInit ==
    /\ sgd_params \in [kind : {"classifier", "regressor"},
                       warm_start : BOOLEAN,
                       learning_rate : {"optimal", "invscaling"},
                       n_iter : 1..MaxNIter]
    /\ sgd_coef_ = <<>>
    /\ sgd_intercept_ = <<>>
    /\ sgd_t_ = NoneT
    /\ sgd_classes_ = 0
    /\ sgd_calls = 0
    /\ sgd_last = [op |-> "none"]

SGDApply(op, a, r, n, n_iter, init_given) ==
    /\ sgd_coef_' = r.e.coef_
    /\ sgd_intercept_' = r.e.intercept_
    /\ sgd_t_' = r.e.t_
    /\ sgd_classes_' = r.e.classes_
    /\ sgd_calls' = sgd_calls + 1
    /\ sgd_last' = [op |-> op, args |-> a, error |-> r.error, n |-> n,
                    n_iter |-> n_iter, init_given |-> init_given,
                    before |-> Estimator, start |-> r.start]
    /\ UNCHANGED sgd_params

\* SGDClassifier.fit / SGDRegressor.fit
SGDFit ==
    /\ sgd_calls < MaxCalls
    /\ \E a \in FitArgs(sgd_params.kind) :
          SGDApply("fit", a,
                   IF sgd_params.kind = "classifier"
                   THEN clf_fit(Estimator, sgd_params, sgd_calls + 1, a)
                   ELSE reg_fit(Estimator, sgd_params, sgd_calls + 1, a),
                   a.n, sgd_params.n_iter,
                   a.coef_init # <<>> \/ a.intercept_init # <<>>)

\* SGDClassifier.partial_fit / SGDRegressor.partial_fit: n_iter = 1 and no
\* coef_init / intercept_init
SGDPartialFit ==
    /\ sgd_calls < MaxCalls
    /\ \E a \in PartialFitArgs(sgd_params.kind) :
          SGDApply("partial_fit", a,
                   IF sgd_params.kind = "classifier"
                   THEN clf_partial_fit(Estimator, sgd_params, sgd_calls + 1, a,
                                        1, a.classes, <<>>, <<>>)
                   ELSE reg_partial_fit(Estimator, sgd_params, sgd_calls + 1, a,
                                        1, <<>>, <<>>),
                   a.n, 1, FALSE)

----------------------------------------------------------------------------
(* _translate_train_sizes(train_sizes, n_max_training_samples).             *)
(* A float size is the fraction num / Den, held as its numerator; an        *)
(* integer size is held as itself.                                          *)

MaxTicks == 3

MaxNMax == 4

Den == 4

no_clip(x, lo, hi) == x

\* np.clip(x, lo, hi)
clip(x, lo, hi) == IF x < lo THEN lo ELSE IF x > hi THEN hi ELSE x

\* (train_sizes_abs * n_max).astype(np.int) for the fraction num / den:
\* truncation, which is the floor for a non-negative product
frac_to_abs(num, den, n_max) == (num * n_max) \div den

\* lines 172-204 for a float array of fractions num / den
translate_floats(vals, den, n_max) ==
    IF Min(Range(vals)) <= 0 \/ Max(Range(vals)) > den
    THEN [state |-> "ValueError", out |-> <<>>, warned |-> FALSE]
    ELSE LET abs == {clip(frac_to_abs(vals[i], den, n_max), 1, n_max) :
                        i \in DOMAIN vals}
         IN  [state |-> "returned", out |-> SortedSeq(abs),
              warned |-> Len(vals) > Cardinality(abs)]

\* lines 172-204 for an integer array
translate_ints(vals, n_max) ==
    IF Min(Range(vals)) <= 0 \/ Max(Range(vals)) > n_max
    THEN [state |-> "ValueError", out |-> <<>>, warned |-> FALSE]
    ELSE [state |-> "returned", out |-> SortedSeq(Range(vals)),
          warned |-> Len(vals) > Cardinality(Range(vals))]

translate_train_sizes(ts, n_max) ==
    IF ts.dtype = "float" THEN translate_floats(ts.vals, ts.den, n_max)
    ELSE translate_ints(ts.vals, n_max)

\* the train_sizes arguments: float arrays with numerators 0..den+1 (0 and
\* den+1 are out of (0, 1]) and integer arrays over 0..hi
TrainSizes(den, hi, ticks) ==
    {[dtype |-> "float", den |-> den, vals |-> v] : v \in SeqsOf(0..(den + 1), 1, ticks)}
    \cup {[dtype |-> "int", den |-> 1, vals |-> v] : v \in SeqsOf(0..hi, 1, ticks)}

TranslateIdle ==
    /\ tr_train_sizes = <<>> /\ tr_n_max = 0 /\ tr_state = "idle"
    /\ tr_out = <<>> /\ tr_warned = FALSE

TranslateInit ==
    /\ tr_n_max \in 1..MaxNMax
    /\ tr_train_sizes \in TrainSizes(Den, tr_n_max + 1, MaxTicks)
    /\ tr_state = "new"
    /\ tr_out = <<>>
    /\ tr_warned = FALSE

\* one call of _translate_train_sizes
TranslateTrainSizes ==
    /\ tr_state = "new"
    /\ LET r == translate_train_sizes(tr_train_sizes, tr_n_max)
       IN  /\ tr_state' = r.state
           /\ tr_out' = r.out
           /\ tr_warned' = r.warned
    /\ UNCHANGED <<tr_train_sizes, tr_n_max>>

----------------------------------------------------------------------------
(* learning_curve: folds x training sizes, fitted and scored by independent *)
(* tasks, then averaged over the folds.                                     *)
(* An estimator object is described by the sample indices it was trained    *)
(* on, in order; a score is a number computed from that and from the        *)
(* indices it is evaluated on.                                              *)

LcMaxN == 3

LcMaxTicks == 2

LcDen == 2

MaxJobs == 2

\* LeaveOneLabelOut(labels): one fold per distinct label, in ascending label
\* order; the fold tests on the samples carrying the label
LeaveOneLabelOutList(labels) ==
    LET unique == SortedSeq(Range(labels))
    IN  [u \in 1..Len(unique) |->
            [train |-> SortedSeq({i - 1 : i \in {j \in DOMAIN labels : labels[j] # unique[u]}}),
             test |-> SortedSeq({i - 1 : i \in {j \in DOMAIN labels : labels[j] = unique[u]}})]]

\* the cv arguments: KFold(n, k) for every valid k, and LeaveOneLabelOut over
\* the labellings 0..0 1..1 of the n samples, whose two folds have training
\* sets of different sizes unless the labels are balanced
CvChoices(n) ==
    {KFoldList(n, k) : k \in 2..n}
    \cup {LeaveOneLabelOutList([i \in 1..n |-> IF i <= z THEN 0 ELSE 1]) : z \in 1..(n - 1)}

\* the train_sizes arguments: fractions k / LcDen up to 1 and absolute sizes
\* up to n, which is more than any fold's training set holds
LcTrainSizes(n) ==
    {[dtype |-> "float", den |-> LcDen, vals |-> v] : v \in SeqsOf(1..LcDen, 1, LcMaxTicks)}
    \cup {[dtype |-> "int", den |-> 1, vals |-> v] : v \in SeqsOf(1..n, 1, LcMaxTicks)}

Unfit == [trained |-> <<>>, fitted |-> FALSE]

\* base.clone: same hyper-parameters, unfit state
clone(est) == Unfit

\* estimator.fit(X[idx], y[idx]): training from scratch
fit(est, idx) == [trained |-> idx, fitted |-> TRUE]

\* estimator.partial_fit(X[idx], y[idx]): training continues
partial_fit(est, idx) == [trained |-> est.trained \o idx, fitted |-> TRUE]

\* _score(estimator, X[idx], y[idx], scorer): a number that depends on what
\* the estimator was trained on and on what it is evaluated on
score(est, idx) ==
    Len(est.trained) + 5 * SumSeq(est.trained) + 50 * Len(idx) + 250 * SumSeq(idx)

fit_estimator_inplace(base, train_idx, test_idx, n_train_samples) ==
    LET train_subset == Slice(train_idx, 0, n_train_samples)
        estimator == fit(base, train_subset)
    IN  [base |-> estimator, estimator |-> estimator, fitted_on |-> train_subset,
         scores |-> <<score(estimator, train_subset), score(estimator, test_idx)>>]

\* _fit_estimator, lines 207-217, after the clone: what becomes of the
\* caller's estimator and of the clone, and the (train_score, test_score)
fit_estimator(base, train_idx, test_idx, n_train_samples) ==
    LET train_subset == Slice(train_idx, 0, n_train_samples)
        estimator == fit(clone(base), train_subset)
    IN  [base |-> base, estimator |-> estimator, fitted_on |-> train_subset,
         scores |-> <<score(estimator, train_subset), score(estimator, test_idx)>>]

\* every round is handed the whole prefix train_idx[:train_sizes[i]]
partial_train_prefix(train_idx, train_sizes, i) ==
    Slice(train_idx, 0, train_sizes[i])

\* np.split(train_idx, train_sizes)[:-1][i]: train_idx[train_sizes[i-1]:train_sizes[i]]
partial_train(train_idx, train_sizes, i) ==
    Slice(train_idx, IF i = 1 THEN 0 ELSE train_sizes[i - 1], train_sizes[i])

\* one round of the loop of _incremental_fit_estimator, lines 226-234
incremental_step(estimator, train_idx, test_idx, train_sizes, i) ==
    LET est == partial_fit(estimator, partial_train(train_idx, train_sizes, i))
    IN  [estimator |-> est,
         fitted_on |-> partial_train(train_idx, train_sizes, i),
         scores |-> <<score(est, Slice(train_idx, 0, train_sizes[i])), score(est, test_idx)>>]

\* the arithmetic mean of a sequence of numbers, as the fraction sum / n
mean(s) == [sum |-> SumSeq(s), n |-> Len(s)]

reshape_tick_major(out, n_unique_ticks) ==
    [f \in 1..(Len(out) \div n_unique_ticks) |->
        [i \in 1..n_unique_ticks |-> out[(i - 1) * (Len(out) \div n_unique_ticks) + f]]]

\* lines 139-141: out.reshape(n_cv_folds, n_unique_ticks, 2) of the flat
\* task results, n_cv_folds = out.shape[0] / n_unique_ticks
reshape(out, n_unique_ticks) ==
    [f \in 1..(Len(out) \div n_unique_ticks) |->
        [i \in 1..n_unique_ticks |-> out[(f - 1) * n_unique_ticks + i]]]

\* line 143: np.asarray(out).mean(axis=0), column c of it
avg_over_cv(out3, n_unique_ticks, c) ==
    [i \in 1..n_unique_ticks |-> mean([f \in 1..Len(out3) |-> out3[f][i][c]])]

\* the checks and preparations before the parallel phase, lines 97-123:
\* the partial_fit check comes before the folds are generated
lc_prepare_late_check(in) ==
    IF in.exploit_incremental_learning /\ ~in.has_partial_fit
    THEN [pc |-> "ValueError", error |-> "partial_fit", cv |-> in.cv,
          train_sizes_abs |-> <<>>]
    ELSE LET r == translate_train_sizes(in.train_sizes, Len(in.cv[1].train))
         IN  IF r.state = "ValueError"
             THEN [pc |-> "ValueError", error |-> "train_sizes", cv |-> in.cv,
                   train_sizes_abs |-> <<>>]
             ELSE [pc |-> "running", error |-> "none", cv |-> in.cv,
                   train_sizes_abs |-> r.out]

lc_prepare(in) ==
    IF in.exploit_incremental_learning /\ ~in.has_partial_fit
    THEN [pc |-> "ValueError", error |-> "partial_fit", cv |-> <<>>,
          train_sizes_abs |-> <<>>]
    ELSE LET r == translate_train_sizes(in.train_sizes, Len(in.cv[1].train))
         IN  IF r.state = "ValueError"
             THEN [pc |-> "ValueError", error |-> "train_sizes", cv |-> in.cv,
                   train_sizes_abs |-> <<>>]
             ELSE [pc |-> "running", error |-> "none", cv |-> in.cv,
                   train_sizes_abs |-> r.out]

\* results are listed in the order in which the tasks complete
result_slot_by_completion(t, out) == Cardinality(DOMAIN out) + 1

\* Parallel(...)(...) returns the results as a list in the order in which
\* the tasks were submitted: the result of task t is entry t of out
result_slot(t, out) == t

\* number of tasks handed to Parallel: one per fold when incremental, one
\* per (fold, size) otherwise
NTasks ==
    IF lc_in.exploit_incremental_learning THEN Len(lc_cv)
    ELSE Len(lc_cv) * Len(lc_train_sizes_abs)

\* the fold and the tick of task t of the non-incremental generator
\* "for train, test in cv for n_train_samples in train_sizes_abs"
TaskFold(t) == ((t - 1) \div Len(lc_train_sizes_abs)) + 1

TaskTick(t) == ((t - 1) % Len(lc_train_sizes_abs)) + 1

LCIdle ==
    /\ lc_in = <<>> /\ lc_pc = "idle" /\ lc_error = "none" /\ lc_base = <<>>
    /\ lc_cv = <<>> /\ lc_train_sizes_abs = <<>> /\ lc_next = 0
    /\ lc_tasks = <<>> /\ lc_out = <<>> /\ lc_clones = 0 /\ lc_fits = <<>>
    /\ lc_result = <<>>

LCInit ==
    /\ \E n \in 2..LcMaxN :
          lc_in \in [exploit_incremental_learning : BOOLEAN,
                     has_partial_fit : BOOLEAN,
                     cv : CvChoices(n),
                     train_sizes : LcTrainSizes(n)]
    /\ lc_pc = "new"
    /\ lc_error = "none"
    /\ lc_base \in {Unfit, fit(Unfit, <<0>>)}
    /\ lc_cv = <<>>
    /\ lc_train_sizes_abs = <<>>
    /\ lc_next = 0
    /\ lc_tasks = <<>>
    /\ lc_out = <<>>
    /\ lc_clones = 0
    /\ lc_fits = <<>>
    /\ lc_result = <<>>

\* learning_curve up to the call of Parallel
LCPrepare ==
    /\ lc_pc = "new"
    /\ LET r == lc_prepare(lc_in)
       IN  /\ lc_pc' = r.pc
           /\ lc_error' = r.error
           /\ lc_cv' = r.cv
           /\ lc_train_sizes_abs' = r.train_sizes_abs
           /\ lc_next' = IF r.pc = "running" THEN 1 ELSE 0
    /\ UNCHANGED <<lc_in, lc_base, lc_tasks, lc_out, lc_clones, lc_fits, lc_result>>

\* Parallel starts the next task while fewer than n_jobs are in flight; the
\* task begins by cloning the estimator
LCDispatch ==
    /\ lc_pc = "running"
    /\ lc_next <= NTasks
    /\ Cardinality(DOMAIN lc_tasks) < MaxJobs
    /\ lc_tasks' = [t \in DOMAIN lc_tasks \cup {lc_next} |->
                       IF t = lc_next
                       THEN [estimator |-> clone(lc_base), scores |-> <<>>]
                       ELSE lc_tasks[t]]
    /\ lc_clones' = lc_clones + 1
    /\ lc_fits' = Append(lc_fits, <<>>)
    /\ lc_next' = lc_next + 1
    /\ UNCHANGED <<lc_in, lc_pc, lc_error, lc_base, lc_cv, lc_train_sizes_abs,
                   lc_out, lc_result>>

\* a _fit_estimator task fits, scores and returns
LCFitEstimator ==
    /\ lc_pc = "running"
    /\ ~lc_in.exploit_incremental_learning
    /\ \E t \in DOMAIN lc_tasks :
          LET fold == lc_cv[TaskFold(t)]
              r == fit_estimator(lc_base, fold.train, fold.test,
                                 lc_train_sizes_abs[TaskTick(t)])
          IN  /\ lc_base' = r.base
              /\ lc_out' = lc_out @@ (result_slot(t, lc_out) :> r.scores)
              /\ lc_fits' = [lc_fits EXCEPT ![t] = Append(@, r.fitted_on)]
              /\ lc_tasks' = [u \in DOMAIN lc_tasks \ {t} |-> lc_tasks[u]]
    /\ UNCHANGED <<lc_in, lc_pc, lc_error, lc_cv, lc_train_sizes_abs, lc_next,
                   lc_clones, lc_result>>

\* an _incremental_fit_estimator task does one round of its loop; after the
\* last round it returns its score table
LCIncrementalStep ==
    /\ lc_pc = "running"
    /\ lc_in.exploit_incremental_learning
    /\ \E t \in DOMAIN lc_tasks :
          LET fold == lc_cv[t]
              i == Len(lc_tasks[t].scores) + 1
              r == incremental_step(lc_tasks[t].estimator, fold.train, fold.test,
                                    lc_train_sizes_abs, i)
              scores == Append(lc_tasks[t].scores, r.scores)
          IN  /\ lc_fits' = [lc_fits EXCEPT ![t] = Append(@, r.fitted_on)]
              /\ IF i = Len(lc_train_sizes_abs)
                 THEN /\ lc_out' = lc_out @@ (result_slot(t, lc_out) :> scores)
                      /\ lc_tasks' = [u \in DOMAIN lc_tasks \ {t} |-> lc_tasks[u]]
                 ELSE /\ lc_out' = lc_out
                      /\ lc_tasks' = [lc_tasks EXCEPT ![t] =
                                         [estimator |-> r.estimator, scores |-> scores]]
    /\ UNCHANGED <<lc_in, lc_pc, lc_error, lc_base, lc_cv, lc_train_sizes_abs,
                   lc_next, lc_clones, lc_result>>

\* Parallel has returned every result, in dispatch order: average and return
LCAggregate ==
    /\ lc_pc = "running"
    /\ lc_next > NTasks
    /\ DOMAIN lc_tasks = {}
    /\ LET n_unique_ticks == Len(lc_train_sizes_abs)
           flat == [t \in 1..NTasks |-> lc_out[t]]
           out3 == IF lc_in.exploit_incremental_learning THEN flat
                   ELSE reshape(flat, n_unique_ticks)
       IN  lc_result' = [train_sizes_abs |-> lc_train_sizes_abs,
                         train_scores |-> avg_over_cv(out3, n_unique_ticks, 1),
                         test_scores |-> avg_over_cv(out3, n_unique_ticks, 2)]
    /\ lc_pc' = "done"
    /\ UNCHANGED <<lc_in, lc_error, lc_base, lc_cv, lc_train_sizes_abs, lc_next,
                   lc_tasks, lc_out, lc_clones, lc_fits>>

----------------------------------------------------------------------------
(* enet_path: the coordinate-descent solves along a regularization path.    *)
(* A coefficient vector is described by its length and by the solve that    *)
(* produced it; a dual gap by its solve and by whether it is above the      *)
(* tolerance of that solve.                                                 *)

EnMaxAlphas == 2

EnMaxAlpha == 2

EnMaxFeatures == 2

\* alphas=None of the caller
NoAlphas == <<-1>>

\* an entry of an np.empty array that has not been written
Uninit == [src |-> "uninit", n |-> 0, alpha |-> 0, idx |-> 0, converged |-> TRUE]

\* np.zeros(n_features)
ZeroCoef(n_features) ==
    [src |-> "zeros", n |-> n_features, alpha |-> 0, idx |-> 0, converged |-> TRUE]

\* the caller's coef_init
InitCoef(n_features) ==
    [src |-> "coef_init", n |-> n_features, alpha |-> 0, idx |-> 0, converged |-> TRUE]

\* _alpha_grid: n_alphas values from alpha_max down, np.logspace(...)[::-1]
alpha_grid(n_alphas) == [i \in 1..n_alphas |-> n_alphas + 1 - i]

\* lines 385-392: the alphas of the path
enet_alphas(in) ==
    IF in.alphas = NoAlphas THEN alpha_grid(in.n_alphas) ELSE path_alphas(in.alphas)

\* the path always starts from zeros
enet_coef_start_zeros(in) == ZeroCoef(in.n_features)

\* lines 396-399
enet_coef_start(in) ==
    IF in.coef_init THEN InitCoef(in.n_features) ELSE ZeroCoef(in.n_features)

\* cd_fast.enet_coordinate_descent at loop index i: the coefficients and the
\* dual gap it returns; converged says dual_gap_ <= eps_
cd_coef(in, alpha, i) ==
    [src |-> "cd", n |-> in.n_features, alpha |-> alpha, idx |-> i, converged |-> TRUE]

cd_dual_gap(alpha, i, converged) ==
    [src |-> "gap", n |-> 1, alpha |-> alpha, idx |-> i, converged |-> converged]

\* lines 431-440: the model appended at loop index i; last_gap is the value
\* read from dual_gaps[-1]
enet_model(alpha, coef, last_gap) ==
    [alpha |-> alpha, coef_ |-> coef, dual_gap_ |-> last_gap]

\* lines 442-448: does the verbose output of an iteration raise UnboundLocalError
\* (print(model) when no model was built)
verbose_raises(in) == in.verbose > 2 /\ ~in.return_models

EnetInputs ==
    [alphas : {NoAlphas} \cup SeqsOf(1..EnMaxAlpha, 0, EnMaxAlphas),
     n_alphas : 1..EnMaxAlphas,
     n_features : 1..EnMaxFeatures,
     coef_init : BOOLEAN,
     return_models : BOOLEAN,
     verbose : 0..3]

EnetIdle ==
    /\ en_in = <<>> /\ en_pc = "idle" /\ en_alphas = <<>> /\ en_i = 0
    /\ en_coef_ = <<>> /\ en_coefs = <<>> /\ en_dual_gaps = <<>>
    /\ en_models = <<>> /\ en_warnings = {} /\ en_starts = <<>>
    /\ en_result = <<>>

EnetInit ==
    /\ en_in \in {in \in EnetInputs : in.alphas # NoAlphas => in.n_alphas = 1}
    /\ en_pc = "new"
    /\ en_alphas = <<>>
    /\ en_i = 0
    /\ en_coef_ = <<>>
    /\ en_coefs = <<>>
    /\ en_dual_gaps = <<>>
    /\ en_models = <<>>
    /\ en_warnings = {}
    /\ en_starts = <<>>
    /\ en_result = <<>>

\* enet_path up to the loop, lines 342-407
EnetPathStart ==
    /\ en_pc = "new"
    /\ en_alphas' = enet_alphas(en_in)
    /\ en_coef_' = enet_coef_start(en_in)
    /\ en_coefs' = [i \in 1..Len(enet_alphas(en_in)) |-> Uninit]
    /\ en_dual_gaps' = [i \in 1..Len(enet_alphas(en_in)) |-> Uninit]
    /\ en_i' = 0
    /\ en_pc' = "loop"
    /\ UNCHANGED <<en_in, en_models, en_warnings, en_starts, en_result>>

\* one round of the loop of lines 409-448
EnetPathSolve ==
    /\ en_pc = "loop"
    /\ en_i < Len(en_alphas)
    /\ \E converged \in BOOLEAN :
          LET i == en_i + 1
              alpha == en_alphas[i]
              coef == cd_coef(en_in, alpha, i)
              gap == cd_dual_gap(alpha, i, converged)
              dual_gaps == [en_dual_gaps EXCEPT ![i] = gap]
          IN  /\ en_starts' = Append(en_starts, en_coef_)
              /\ en_coef_' = coef
              /\ en_warnings' = IF converged THEN en_warnings ELSE en_warnings \cup {i}
              /\ en_coefs' = [en_coefs EXCEPT ![i] = coef]
              /\ en_dual_gaps' = dual_gaps
              /\ IF en_in.return_models
                 THEN \E last \in (IF dual_gaps[Len(dual_gaps)] = Uninit
                                   THEN {Uninit, gap} ELSE {dual_gaps[Len(dual_gaps)]}) :
                         en_models' = Append(en_models, enet_model(alpha, coef, last))
                 ELSE en_models' = en_models
              /\ IF en_in.verbose > 0 /\ verbose_raises(en_in)
                 THEN en_pc' = "UnboundLocalError" /\ en_i' = en_i
                 ELSE en_pc' = "loop" /\ en_i' = i
    /\ UNCHANGED <<en_in, en_alphas, en_result>>

\* lines 450-453
EnetPathReturn ==
    /\ en_pc = "loop"
    /\ en_i = Len(en_alphas)
    /\ en_result' = IF en_in.return_models
                    THEN [models |-> en_models]
                    ELSE [alphas |-> en_alphas, coefs |-> en_coefs,
                          dual_gaps |-> en_dual_gaps]
    /\ en_pc' = "returned"
    /\ UNCHANGED <<en_in, en_alphas, en_i, en_coef_, en_coefs, en_dual_gaps,
                   en_models, en_warnings, en_starts>>

----------------------------------------------------------------------------
(* _RidgeGCV.fit: generalized cross-validation over the candidate alphas.   *)
(* The leave-one-out quantity of sample s at candidate i (the squared error *)
(* of _errors, or the prediction of _values) is an input, 0 or 1.           *)

GcvMaxDim == 2

GcvMaxAlphas == 2

NoMode == "None"

\* the strategy as the documentation of RidgeCV words it
gcv_mode_documented(in) ==
    IF in.gcv_mode \in {NoMode, "auto"}
    THEN [mode |-> IF in.n_samples > in.n_features \/ in.sparse THEN "svd" ELSE "eigen",
          warned |-> FALSE]
    ELSE IF in.gcv_mode = "svd" /\ in.with_sw
         THEN [mode |-> "eigen", warned |-> TRUE]
         ELSE [mode |-> in.gcv_mode, warned |-> FALSE]

\* lines 700-712: the strategy used, and whether the warning is issued
gcv_mode_used(in) ==
    IF in.gcv_mode \in {NoMode, "auto"}
    THEN [mode |-> IF in.sparse \/ in.n_features > in.n_samples \/ in.with_sw
                   THEN "eigen" ELSE "svd",
          warned |-> FALSE]
    ELSE IF in.gcv_mode = "svd" /\ in.with_sw
         THEN [mode |-> "eigen", warned |-> TRUE]
         ELSE [mode |-> in.gcv_mode, warned |-> FALSE]

\* lines 714-726: what the choice of the functions and _pre_compute raise
gcv_raises(in, mode) ==
    IF mode = "eigen" THEN "none"
    ELSE IF mode = "svd" THEN (IF in.sparse THEN "TypeError" ELSE "none")
    ELSE "ValueError"

\* cv_values[:, i]
cv_column(in, i) == [s \in 1..in.n_samples |-> in.cv_values[s][i]]

\* cv_values.mean(axis=0)[i], kept as the sum: every mean has the
\* denominator n_samples
cv_mean(in, i) == SumSeq(cv_column(in, i))

\* scorer(identity_estimator, y.ravel(), cv_values[:, i]): here the scorer
\* counts the predictions that are 1
scorer_value(in, i) == SumSeq(cv_column(in, i))

\* np.argmax: the first index of the maximum
argmax(v) == Min({i \in DOMAIN v : \A j \in DOMAIN v : v[i] >= v[j]})

gcv_best_error_only(in) ==
    argmin([i \in DOMAIN in.alphas |-> cv_mean(in, i)])

\* lines 745-757: best
gcv_best(in) ==
    IF ~in.scorer
    THEN argmin([i \in DOMAIN in.alphas |-> cv_mean(in, i)])
    ELSE argmax([i \in DOMAIN in.alphas |-> scorer_value(in, i)])

\* the c returned by _errors / _values for candidate i: the dual coefficients
gcv_C(in, mode, i) == [alpha |-> in.alphas[i], idx |-> i, mode |-> mode]

\* safe_sparse_dot(self.dual_coef_.T, X)
gcv_coef(dual_coef) == [dual_coef |-> dual_coef]

GcvAlphas ==
    UNION {{[i \in 1..k |-> i], [i \in 1..k |-> k + 1 - i]} : k \in 1..GcvMaxAlphas}

GcvInputs ==
    UNION {[alphas : {a},
            n_samples : {n},
            n_features : 1..GcvMaxDim,
            sparse : BOOLEAN,
            with_sw : BOOLEAN,
            gcv_mode : {NoMode, "auto", "svd", "eigen", "bogus"},
            scorer : BOOLEAN,
            cv_values : [1..n -> [1..Len(a) -> 0..1]]]
           : a \in GcvAlphas, n \in 1..GcvMaxDim}

GCVIdle ==
    /\ gcv_in = <<>> /\ gcv_state = "idle" /\ gcv_mode = "" /\ gcv_warned = FALSE
    /\ gcv_alpha_ = 0 /\ gcv_dual_coef_ = <<>> /\ gcv_coef_ = <<>>

GCVInit ==
    /\ gcv_in \in GcvInputs
    /\ gcv_state = "new"
    /\ gcv_mode = ""
    /\ gcv_warned = FALSE
    /\ gcv_alpha_ = 0
    /\ gcv_dual_coef_ = <<>>
    /\ gcv_coef_ = <<>>

\* _RidgeGCV.fit, lines 675-774
RidgeGCVFit ==
    /\ gcv_state = "new"
    /\ LET m == gcv_mode_used(gcv_in)
           err == gcv_raises(gcv_in, m.mode)
           best == gcv_best(gcv_in)
       IN  /\ gcv_mode' = m.mode
           /\ gcv_warned' = m.warned
           /\ IF err # "none"
              THEN /\ gcv_state' = err
                   /\ UNCHANGED <<gcv_alpha_, gcv_dual_coef_, gcv_coef_>>
              ELSE /\ gcv_state' = "fitted"
                   /\ gcv_alpha_' = gcv_in.alphas[best]
                   /\ gcv_dual_coef_' = gcv_C(gcv_in, m.mode, best)
                   /\ gcv_coef_' = gcv_coef(gcv_C(gcv_in, m.mode, best))
    /\ UNCHANGED gcv_in

----------------------------------------------------------------------------
(* StratifiedKFold(y, n_folds): each class is split on its own into n_folds *)
(* contiguous blocks, in sample order, and fold i tests on the i-th block   *)
(* of every class. A class with fewer than n_folds members is split as if   *)
(* it had n_folds members and the missing positions are dropped, after a    *)
(* warning. The other argument checks are those of KFold.                   *)

SkMaxN == 4

SkMaxLabel == 1

\* y == label restricted to the samples before position s: the rank of
\* sample s within its class (0-based)
rank_in_class(labels, s) ==
    Cardinality({j \in 1..(s - 1) : labels[j] = labels[s]})

\* np.bincount: the number of members of the class of sample s
class_count(labels, s) == Cardinality({j \in DOMAIN labels : labels[j] = labels[s]})

\* the block of KFold(m, k) that holds position j (0-based), as a 0-based
\* fold index
block_of(m, k, j) ==
    (CHOOSE i \in 1..k :
        fold_start(m, k, i) <= j /\ j < fold_start(m, k, i) + fold_sizes(m, k)[i]) - 1

\* the size the per-class KFold is built with: max(c, n_folds)
class_size(c, k) == Max({c, k})

\* self.test_folds
stratified_test_folds(labels, k) ==
    [s \in DOMAIN labels |->
        block_of(class_size(class_count(labels, s), k), k, rank_in_class(labels, s))]

never_too_few(labels, k) == FALSE

\* the least populated class has fewer members than n_folds
too_few_members(labels, k) == \E s \in DOMAIN labels : class_count(labels, s) < k

\* the i-th pair (1-based): test = where(test_folds == i - 1), train the rest
StratifiedFold(test_folds, i) ==
    [train |-> SortedSeq({s - 1 : s \in {j \in DOMAIN test_folds : test_folds[j] # i - 1}}),
     test |-> SortedSeq({s - 1 : s \in {j \in DOMAIN test_folds : test_folds[j] = i - 1}})]

SKFIdle ==
    /\ sk_labels = <<>> /\ sk_n_folds = 0 /\ sk_frac = FALSE /\ sk_state = "idle"
    /\ sk_warnings = 0 /\ sk_test_folds = <<>> /\ sk_yielded = <<>>

SKFInit ==
    /\ sk_labels \in SeqsOf(0..SkMaxLabel, 1, SkMaxN)
    /\ sk_n_folds \in 0..(SkMaxN + 1)
    /\ sk_frac \in BOOLEAN
    /\ sk_state = "new"
    /\ sk_warnings = 0
    /\ sk_test_folds = <<>>
    /\ sk_yielded = <<>>

\* StratifiedKFold.__init__
SKFConstruct ==
    /\ sk_state = "new"
    /\ IF kfold_args_invalid(Len(sk_labels), sk_n_folds,
                             [n |-> FALSE, n_folds |-> sk_frac])
       THEN /\ sk_state' = "ValueError"
            /\ UNCHANGED <<sk_warnings, sk_test_folds>>
       ELSE /\ sk_state' = "ready"
            /\ sk_warnings' = IF too_few_members(sk_labels, sk_n_folds) THEN 1 ELSE 0
            /\ sk_test_folds' = stratified_test_folds(sk_labels, sk_n_folds)
    /\ UNCHANGED <<sk_labels, sk_n_folds, sk_frac, sk_yielded>>

\* one step of the iteration
SKFYield ==
    /\ sk_state = "ready"
    /\ Len(sk_yielded) < sk_n_folds
    /\ sk_yielded' = Append(sk_yielded, StratifiedFold(sk_test_folds, Len(sk_yielded) + 1))
    /\ UNCHANGED <<sk_labels, sk_n_folds, sk_frac, sk_state, sk_warnings, sk_test_folds>>

----------------------------------------------------------------------------
(* LeaveOneLabelOut(labels) and LeavePLabelOut(labels, p): one fold per     *)
(* distinct label, or per p-subset of the distinct labels, testing on the   *)
(* samples that carry such a label. The constructor copies the labels.      *)

LoMaxN == 3

LoMaxLabel == 2

\* A comes before B in the order of itertools.combinations
CombBefore(A, B) == A # B /\ Min((A \ B) \cup (B \ A)) \in A

RECURSIVE SortCombs(_)
SortCombs(S) ==
    IF S = {} THEN <<>>
    ELSE LET first == CHOOSE A \in S : \A B \in S \ {A} : CombBefore(A, B)
         IN  <<first>> \o SortCombs(S \ {first})

\* combinations(range(n), p), as sets of 1-based positions
combinations(n, p) == SortCombs({A \in SUBSET (1..n) : Cardinality(A) = p})

\* the pair that tests on the samples whose label is in tested
LabelOutFold(labels, tested) ==
    [train |-> SortedSeq({i - 1 : i \in {j \in DOMAIN labels : labels[j] \notin tested}}),
     test |-> SortedSeq({i - 1 : i \in {j \in DOMAIN labels : labels[j] \in tested}})]

\* the label sets tested by the successive folds
tested_labels(kind, unique, p) ==
    IF kind = "LeaveOneLabelOut" THEN [i \in DOMAIN unique |-> {unique[i]}]
    ELSE LET combs == combinations(Len(unique), p)
         IN  [c \in DOMAIN combs |-> {unique[i] : i \in combs[c]}]

iter_labels_of_caller(own, caller) == caller

\* the labels the iteration reads: the generator's own copy
iter_labels(own, caller) == own

\* the pairs of a generator built from labels and iterated at once
LabelOutList(kind, labels, p) ==
    LET tested == tested_labels(kind, SortedSeq(Range(labels)), p)
    IN  [i \in DOMAIN tested |-> LabelOutFold(labels, tested[i])]

LabelOutIdle ==
    /\ lo_kind = "" /\ lo_p = 0 /\ lo_caller = <<>> /\ lo_given = <<>>
    /\ lo_labels = <<>> /\ lo_unique = <<>> /\ lo_state = "idle" /\ lo_yielded = <<>>

LabelOutInit ==
    /\ lo_kind \in {"LeaveOneLabelOut", "LeavePLabelOut"}
    /\ lo_p \in (IF lo_kind = "LeaveOneLabelOut" THEN {1} ELSE 1..LoMaxLabel)
    /\ lo_caller \in SeqsOf(0..LoMaxLabel, 1, LoMaxN)
    /\ lo_given = <<>>
    /\ lo_labels = <<>>
    /\ lo_unique = <<>>
    /\ lo_state = "new"
    /\ lo_yielded = <<>>

\* __init__: self.labels = np.array(labels, copy=True);
\* self.unique_labels = np.unique(labels)
LabelOutConstruct ==
    /\ lo_state = "new"
    /\ lo_given' = lo_caller
    /\ lo_labels' = lo_caller
    /\ lo_unique' = SortedSeq(Range(lo_caller))
    /\ lo_state' = "ready"
    /\ UNCHANGED <<lo_kind, lo_p, lo_caller, lo_yielded>>

\* the caller writes into its array: labels[:] = v
CallerOverwritesLabels ==
    /\ lo_state = "ready"
    /\ \E v \in 0..LoMaxLabel :
          /\ lo_caller # [i \in DOMAIN lo_caller |-> v]
          /\ lo_caller' = [i \in DOMAIN lo_caller |-> v]
    /\ UNCHANGED <<lo_kind, lo_p, lo_given, lo_labels, lo_unique, lo_state, lo_yielded>>

\* one step of the iteration
LabelOutYield ==
    /\ lo_state = "ready"
    /\ LET tested == tested_labels(lo_kind, lo_unique, lo_p)
           i == Len(lo_yielded) + 1
       IN  /\ i <= Len(tested)
           /\ lo_yielded' = Append(lo_yielded,
                                   LabelOutFold(iter_labels(lo_labels, lo_caller), tested[i]))
    /\ UNCHANGED <<lo_kind, lo_p, lo_caller, lo_given, lo_labels, lo_unique, lo_state>>

----------------------------------------------------------------------------
(* ShuffleSplit(n, n_iter, test_size, train_size, random_state): every      *)
(* round draws a permutation of range(n) and slices train and test off it.  *)
(* A pseudo-random generator is a seed and the number of draws made from    *)
(* it; what it draws next is a function of the two.                         *)

SsMaxN == 3

SsMaxIter == 2

SsMaxSeed == 1

\* RandomState(seed)
RandomState(seed) == [seed |-> seed, draws |-> 0]

\* rng.permutation(n): the permutation drawn in the state rng
permutation(rng, n) == [i \in 1..n |-> (i - 1 + rng.seed + rng.draws) % n]

\* the state of the generator after a draw
advance(rng) == [rng EXCEPT !.draws = @ + 1]

check_random_state_global(random_state, global, instance) ==
    [kind |-> "None", rng |-> global]

\* check_random_state: None is the global generator, an int seeds a new
\* generator, a RandomState object is used as it is
check_random_state(random_state, global, instance) ==
    IF random_state.kind = "None" THEN [kind |-> "None", rng |-> global]
    ELSE IF random_state.kind = "int"
         THEN [kind |-> "int", rng |-> RandomState(random_state.seed)]
         ELSE [kind |-> "RandomState", rng |-> instance]

\* train = the first n_train of the permutation, test = the last n_test
ShuffleSplitFold(perm, n_train, n_test) ==
    [train |-> Slice(perm, 0, n_train), test |-> Slice(perm, Len(perm) - n_test, Len(perm))]

\* sizes that cannot be satisfied are a configuration error
sizes_invalid(n, n_train, n_test) ==
    n_train <= 0 \/ n_test <= 0 \/ n_train + n_test > n

ShuffleSplitIdle ==
    /\ ss_n = 0 /\ ss_n_iter = 0 /\ ss_n_train = 0 /\ ss_n_test = 0
    /\ ss_random_state = <<>> /\ ss_global = <<>> /\ ss_instance = <<>>
    /\ ss_rng = <<>> /\ ss_state = "idle" /\ ss_pass = 0 /\ ss_first = <<>>
    /\ ss_yielded = <<>>

ShuffleSplitInit ==
    /\ ss_n \in 1..SsMaxN
    /\ ss_n_iter \in 1..SsMaxIter
    /\ ss_n_train \in 0..ss_n
    /\ ss_n_test \in 0..ss_n
    /\ ss_random_state \in
          {[kind |-> "None", seed |-> 0]}
          \cup [kind : {"int", "RandomState"}, seed : 0..SsMaxSeed]
    /\ ss_global \in {RandomState(s) : s \in 0..SsMaxSeed}
    /\ ss_instance = IF ss_random_state.kind = "RandomState"
                     THEN RandomState(ss_random_state.seed) ELSE <<>>
    /\ ss_rng = <<>>
    /\ ss_state = "new"
    /\ ss_pass = 1
    /\ ss_first = <<>>
    /\ ss_yielded = <<>>

\* ShuffleSplit.__init__
ShuffleSplitConstruct ==
    /\ ss_state = "new"
    /\ ss_state' = IF sizes_invalid(ss_n, ss_n_train, ss_n_test)
                   THEN "ValueError" ELSE "ready"
    /\ UNCHANGED <<ss_n, ss_n_iter, ss_n_train, ss_n_test, ss_random_state, ss_global,
                   ss_instance, ss_rng, ss_pass, ss_first, ss_yielded>>

\* one round of the iteration; the first round of an iteration begins with
\* rng = check_random_state(self.random_state)
ShuffleSplitYield ==
    /\ ss_state = "ready"
    /\ Len(ss_yielded) < ss_n_iter
    /\ LET g == IF ss_yielded = <<>>
                THEN check_random_state(ss_random_state, ss_global, ss_instance)
                ELSE ss_rng
           after == [g EXCEPT !.rng = advance(g.rng)]
       IN  /\ ss_yielded' = Append(ss_yielded,
                                   ShuffleSplitFold(permutation(g.rng, ss_n),
                                                    ss_n_train, ss_n_test))
           /\ ss_rng' = after
           /\ ss_global' = IF g.kind = "None" THEN after.rng ELSE ss_global
           /\ ss_instance' = IF g.kind = "RandomState" THEN after.rng ELSE ss_instance
    /\ UNCHANGED <<ss_n, ss_n_iter, ss_n_train, ss_n_test, ss_random_state,
                   ss_state, ss_pass, ss_first>>

\* the caller starts a second iteration over the same object
ShuffleSplitIterateAgain ==
    /\ ss_state = "ready"
    /\ Len(ss_yielded) = ss_n_iter
    /\ ss_pass = 1
    /\ ss_pass' = 2
    /\ ss_first' = ss_yielded
    /\ ss_yielded' = <<>>
    /\ UNCHANGED <<ss_n, ss_n_iter, ss_n_train, ss_n_test, ss_random_state, ss_global,
                   ss_instance, ss_rng, ss_state>>

----------------------------------------------------------------------------
(* SGD hyper-parameters: BaseSGD.__init__, set_params and the validation    *)
(* they share with fit.  shuffle is held as the text of the value given     *)
(* ("True", "False" or the integer "1"); l1_ratio is the fraction           *)
(* num / SpDen, held as its numerator; alpha and eta0 are whole numbers.    *)

SpMaxInt == 1

SpDen == 2

ShuffleValues == {"True", "False", "1"}

PenaltyValues == {"l2", "L1", "bogus"}

LearningRateValues == {"optimal", "constant", "invscaling", "bogus"}

LossValues == {"hinge", "huber", "bogus"}

\* LEARNING_RATE_TYPES
LEARNING_RATE_TYPES == {"constant", "optimal", "invscaling", "pa1", "pa2"}

\* PENALTY_TYPES
PENALTY_TYPES == {"none", "l2", "l1", "elasticnet"}

\* BaseSGDClassifier.loss_functions / BaseSGDRegressor.loss_functions
loss_functions(kind) ==
    IF kind = "classifier"
    THEN {"hinge", "squared_hinge", "perceptron", "log", "modified_huber",
          "squared_loss", "huber", "epsilon_insensitive",
          "squared_epsilon_insensitive"}
    ELSE {"squared_loss", "huber", "epsilon_insensitive",
          "squared_epsilon_insensitive"}

\* isinstance(shuffle, bool)
is_bool(v) == v \in {"True", "False"}

\* str(penalty).lower() on the penalty names above
lower(name) == IF name = "L1" THEN "l1" ELSE name

\* the loss, penalty and learning-rate names are not looked up
validate_params_numbers_only(kind, p) ==
    \/ ~is_bool(p.shuffle)
    \/ p.n_iter <= 0
    \/ ~(0 <= p.l1_ratio /\ p.l1_ratio <= SpDen)
    \/ p.alpha < 0
    \/ p.learning_rate \in {"constant", "invscaling"} /\ p.eta0 <= 0

\* BaseSGD._validate_params: TRUE when it raises ValueError
validate_params(kind, p) ==
    \/ ~is_bool(p.shuffle)
    \/ p.n_iter <= 0
    \/ ~(0 <= p.l1_ratio /\ p.l1_ratio <= SpDen)
    \/ p.alpha < 0
    \/ p.learning_rate \in {"constant", "invscaling"} /\ p.eta0 <= 0
    \/ lower(p.penalty) \notin PENALTY_TYPES
    \/ p.learning_rate \notin LEARNING_RATE_TYPES
    \/ p.loss \notin loss_functions(kind)

\* the values a caller may give to each hyper-parameter
ParamValues ==
    [shuffle |-> ShuffleValues, n_iter |-> 0..SpMaxInt,
     l1_ratio |-> -1..(SpDen + 1), alpha |-> -1..SpMaxInt,
     learning_rate |-> LearningRateValues, eta0 |-> 0..SpMaxInt,
     penalty |-> PenaltyValues, loss |-> LossValues]

ParamNames == DOMAIN ParamValues

Params ==
    [shuffle : ParamValues.shuffle, n_iter : ParamValues.n_iter,
     l1_ratio : ParamValues.l1_ratio, alpha : ParamValues.alpha,
     learning_rate : ParamValues.learning_rate, eta0 : ParamValues.eta0,
     penalty : ParamValues.penalty, loss : ParamValues.loss]

\* no estimator
NoParams == <<>>

SGDParamsIdle ==
    /\ sp_kind = "" /\ sp_params = NoParams /\ sp_state = "idle"
    /\ sp_last = <<>>

SGDParamsInit ==
    /\ sp_kind \in {"classifier", "regressor"}
    /\ sp_params = NoParams
    /\ sp_state = "new"
    /\ sp_last = [op |-> "none"]

\* SGDClassifier(...) / SGDRegressor(...): the arguments are stored, then
\* validated; when the validation raises there is no estimator
SGDConstruct ==
    /\ sp_state = "new"
    /\ \E p \in Params :
          LET raises == validate_params(sp_kind, p)
          IN  /\ sp_params' = IF raises THEN NoParams ELSE p
              /\ sp_state' = IF raises THEN "failed" ELSE "constructed"
              /\ sp_last' = [op |-> "construct", given |-> p,
                             error |-> IF raises THEN "ValueError" ELSE "none"]
    /\ UNCHANGED sp_kind

\* set_params(name=value): BaseEstimator.set_params stores the value, then
\* the whole parameter set is validated; the value stays stored when the
\* validation raises
SGDSetParams ==
    /\ sp_state = "constructed"
    /\ \E name \in ParamNames : \E value \in ParamValues[name] :
          LET p == [sp_params EXCEPT ![name] = value]
              raises == validate_params(sp_kind, p)
          IN  /\ sp_params' = p
              /\ sp_last' = [op |-> "set_params", given |-> p,
                             error |-> IF raises THEN "ValueError" ELSE "none"]
    /\ UNCHANGED <<sp_kind, sp_state>>

\* fit / partial_fit: _partial_fit validates the stored parameters again
\* before anything is allocated
SGDParamsFit ==
    /\ sp_state = "constructed"
    /\ sp_last' = [op |-> "fit", given |-> sp_params,
                   error |-> IF validate_params(sp_kind, sp_params)
                             THEN "ValueError" ELSE "none"]
    /\ UNCHANGED <<sp_kind, sp_params, sp_state>>

----------------------------------------------------------------------------
(* Multi-class SGD: _fit_multiclass dispatches one fit_binary task per      *)
(* class through joblib; the tasks may start and finish in any order.  The  *)
(* result of plain_sgd is an abstract value naming everything it was        *)
(* computed from: the row it started from, the relabelled targets and the   *)
(* iteration counter it was handed.                                         *)

McMaxClasses == 3

McMaxSamples == 2

McMaxNIter == 2

\* the targets y as class indices 1..n_classes, classes_ being sorted
McTargets(n_classes, n_samples) == [1..n_samples -> 1..n_classes]

\* _prepare_fit_binary: y_i is +1 where y is class i and -1 elsewhere; the
\* start is row i of coef_ and entry i of intercept_
prepare_fit_binary(coef_, intercept_, y, i) ==
    [y_i |-> [j \in 1..Len(y) |-> IF y[j] = i THEN 1 ELSE -1],
     coef |-> coef_[i], intercept |-> intercept_[i]]

\* plain_sgd(coef, intercept, ..., dataset, n_iter, ..., est.t_, ...)
plain_sgd(coef, intercept, y_i, n_iter, t) ==
    [coef |-> [src |-> "sgd", from |-> coef, y |-> y_i, n_iter |-> n_iter,
               t |-> t],
     intercept |-> [src |-> "sgd", from |-> intercept, y |-> y_i,
                    n_iter |-> n_iter, t |-> t]]

\* est.t_ as a task would leave it if it counted its own iterations
t_advanced_by_task(t, n_iter, n_samples) == t + n_iter * n_samples

\* fit_binary passes est.t_ by value and never assigns it
t_after_task(t, n_iter, n_samples) == t

NoTask == [state |-> "pending"]

MCIdle ==
    /\ mc_in = <<>> /\ mc_pc = "idle" /\ mc_coef_ = <<>>
    /\ mc_intercept_ = <<>> /\ mc_t_ = NoneT /\ mc_tasks = <<>>

\* the estimator at the call of _fit_multiclass: coef_ and intercept_ are
\* allocated (zeros or the caller's coef_init) and t_ is initialised
MCInit ==
    /\ mc_in \in {a \in [n_classes : 3..McMaxClasses,
                         n_samples : 1..McMaxSamples,
                         n_iter : 1..McMaxNIter,
                         learning_rate : {"optimal", "invscaling"},
                         init_given : BOOLEAN,
                         y : UNION {McTargets(c, n) : c \in 3..McMaxClasses,
                                                      n \in 1..McMaxSamples}] :
                     a.y \in McTargets(a.n_classes, a.n_samples)}
    /\ mc_pc = "dispatch"
    /\ mc_coef_ = IF mc_in.init_given THEN UserRows(mc_in.n_classes)
                  ELSE zeros(mc_in.n_classes)
    /\ mc_intercept_ = IF mc_in.init_given THEN UserRows(mc_in.n_classes)
                       ELSE zeros(mc_in.n_classes)
    /\ mc_t_ = init_t(mc_in.learning_rate)
    /\ mc_tasks = [i \in 1..mc_in.n_classes |-> NoTask]

\* a worker starts fit_binary(est, i, ...): _prepare_fit_binary and the
\* arguments of plain_sgd are taken from the estimator as it is now
MCTaskStart(i) ==
    /\ mc_pc = "dispatch"
    /\ mc_tasks[i].state = "pending"
    /\ mc_tasks' = [mc_tasks EXCEPT ![i] =
          [state |-> "running",
           args |-> prepare_fit_binary(mc_coef_, mc_intercept_, mc_in.y, i),
           t |-> mc_t_]]
    /\ UNCHANGED <<mc_in, mc_pc, mc_coef_, mc_intercept_, mc_t_>>

\* plain_sgd of task i returns (coef, intercept)
MCTaskFinish(i) ==
    /\ mc_pc = "dispatch"
    /\ mc_tasks[i].state = "running"
    /\ mc_tasks' = [mc_tasks EXCEPT ![i] =
          [state |-> "done", args |-> @.args, t |-> @.t,
           result |-> plain_sgd(@.args.coef, @.args.intercept, @.args.y_i,
                                mc_in.n_iter, @.t)]]
    /\ mc_t_' = t_after_task(mc_t_, mc_in.n_iter, mc_in.n_samples)
    /\ UNCHANGED <<mc_in, mc_pc, mc_coef_, mc_intercept_>>

MCTaskStep == \E i \in 1..mc_in.n_classes : MCTaskStart(i) \/ MCTaskFinish(i)

\* Parallel(...) has returned every result: row i of coef_ and entry i of
\* intercept_ are assigned from result i, then _partial_fit advances t_
MCCollect ==
    /\ mc_pc = "dispatch"
    /\ \A i \in 1..mc_in.n_classes : mc_tasks[i].state = "done"
    /\ mc_coef_' = [i \in 1..mc_in.n_classes |-> mc_tasks[i].result.coef]
    /\ mc_intercept_' =
          [i \in 1..mc_in.n_classes |-> mc_tasks[i].result.intercept]
    /\ mc_t_' = t_after(mc_t_, mc_in.n_iter, mc_in.n_samples)
    /\ mc_pc' = "done"
    /\ UNCHANGED <<mc_in, mc_tasks>>

----------------------------------------------------------------------------
(* RidgeClassifierCV.fit and the sample_weight argument.  Weights are whole *)
(* numbers; the caller passes either the scalar default or an array object  *)
(* that the caller keeps a reference to.                                    *)

RcMaxN == 2

RcMaxClasses == 2

RcMaxWeight == 2

RcMaxCalls == 2

\* compute_class_weight(class_weight, classes_, Y): one weight per class,
\* all ones when class_weight is None
RcClassWeights == [1..RcMaxClasses -> 1..RcMaxWeight]

\* cw[np.searchsorted(self.classes_, y)]: the class weight of every sample
weight_per_sample(cw, y) == [i \in 1..Len(y) |-> cw[y[i]]]

\* sample_weight * cw[...] into a new array
times_class_weight(sw, cw, y) ==
    IF sw.kind = "scalar"
    THEN [i \in 1..Len(y) |-> sw.vals[1] * weight_per_sample(cw, y)[i]]
    ELSE [i \in 1..Len(y) |-> sw.vals[i] * weight_per_sample(cw, y)[i]]

\* sample_weight *= cw[...], line 1036: on an ndarray the product is
\* written into the array the caller passed; on a float the local name is
\* rebound to a new array
caller_array_after(sw, cw, y) ==
    IF sw.kind = "array"
    THEN [kind |-> "array", vals |-> times_class_weight(sw, cw, y)]
    ELSE sw

RcInputs ==
    {a \in [n : 1..RcMaxN,
            y : UNION {[1..n -> 1..RcMaxClasses] : n \in 1..RcMaxN},
            cw : RcClassWeights,
            sample_weight : [kind : {"scalar"}, vals : {<<1>>}]
                \cup [kind : {"array"},
                      vals : UNION {[1..n -> 1..RcMaxWeight] : n \in 1..RcMaxN}]] :
        /\ Len(a.y) = a.n
        /\ a.sample_weight.kind = "array" => Len(a.sample_weight.vals) = a.n}

RidgeClfCVIdle ==
    /\ rc_in = <<>> /\ rc_sample_weight = <<>> /\ rc_used = <<>>

\* the caller holds sample_weight and has not called fit yet
RidgeClfCVInit ==
    /\ rc_in \in RcInputs
    /\ rc_sample_weight = rc_in.sample_weight
    /\ rc_used = <<>>

\* clf.fit(X, y, sample_weight=sample_weight) with the caller's object:
\* the weights handed on to _BaseRidgeCV.fit, and the caller's object
\* afterwards
RidgeClassifierCVFit ==
    /\ Len(rc_used) < RcMaxCalls
    /\ rc_used' = Append(rc_used,
                         times_class_weight(rc_sample_weight, rc_in.cw, rc_in.y))
    /\ rc_sample_weight' = caller_array_after(rc_sample_weight, rc_in.cw, rc_in.y)
    /\ UNCHANGED rc_in

----------------------------------------------------------------------------
(* Specifications: one per subsystem. *)

othersKFold ==
    <<cvVars, rrVars, sgdVars, trVars, lcVars, enVars, gcvVars, skVars, loVars, ssVars, spVars, mcVars, rcVars>>

InitKFold ==
    /\ KFoldInit
    /\ CVIdle
    /\ RidgeIdle
    /\ SGDIdle
    /\ TranslateIdle
    /\ LCIdle
    /\ EnetIdle
    /\ GCVIdle
    /\ SKFIdle
    /\ LabelOutIdle
    /\ ShuffleSplitIdle
    /\ SGDParamsIdle
    /\ MCIdle
    /\ RidgeClfCVIdle

NextKFold ==
    \/ KFoldConstruct /\ UNCHANGED othersKFold
    \/ KFoldYield /\ UNCHANGED othersKFold
    \/ KFoldIterateAgain /\ UNCHANGED othersKFold

SpecKFold == InitKFold /\ [][NextKFold]_vars

othersCV ==
    <<kfVars, rrVars, sgdVars, trVars, lcVars, enVars, gcvVars, skVars, loVars, ssVars, spVars, mcVars, rcVars>>

InitCV ==
    /\ CVInit
    /\ KFoldIdle
    /\ RidgeIdle
    /\ SGDIdle
    /\ TranslateIdle
    /\ LCIdle
    /\ EnetIdle
    /\ GCVIdle
    /\ SKFIdle
    /\ LabelOutIdle
    /\ ShuffleSplitIdle
    /\ SGDParamsIdle
    /\ MCIdle
    /\ RidgeClfCVIdle

NextCV ==
    \/ LinearModelCVFit /\ UNCHANGED othersCV

SpecCV == InitCV /\ [][NextCV]_vars

othersRidge ==
    <<kfVars, cvVars, sgdVars, trVars, lcVars, enVars, gcvVars, skVars, loVars, ssVars, spVars, mcVars, rcVars>>

InitRidge ==
    /\ RidgeInit
    /\ KFoldIdle
    /\ CVIdle
    /\ SGDIdle
    /\ TranslateIdle
    /\ LCIdle
    /\ EnetIdle
    /\ GCVIdle
    /\ SKFIdle
    /\ LabelOutIdle
    /\ ShuffleSplitIdle
    /\ SGDParamsIdle
    /\ MCIdle
    /\ RidgeClfCVIdle

NextRidge ==
    \/ RidgeRegression /\ UNCHANGED othersRidge

SpecRidge == InitRidge /\ [][NextRidge]_vars

othersSGD ==
    <<kfVars, cvVars, rrVars, trVars, lcVars, enVars, gcvVars, skVars, loVars, ssVars, spVars, mcVars, rcVars>>

InitSGD ==
    /\ SGDInit
    /\ KFoldIdle
    /\ CVIdle
    /\ RidgeIdle
    /\ TranslateIdle
    /\ LCIdle
    /\ EnetIdle
    /\ GCVIdle
    /\ SKFIdle
    /\ LabelOutIdle
    /\ ShuffleSplitIdle
    /\ SGDParamsIdle
    /\ MCIdle
    /\ RidgeClfCVIdle

NextSGD ==
    \/ SGDFit /\ UNCHANGED othersSGD
    \/ SGDPartialFit /\ UNCHANGED othersSGD

SpecSGD == InitSGD /\ [][NextSGD]_vars

othersTranslate ==
    <<kfVars, cvVars, rrVars, sgdVars, lcVars, enVars, gcvVars, skVars, loVars, ssVars, spVars, mcVars, rcVars>>

InitTranslate ==
    /\ TranslateInit
    /\ KFoldIdle
    /\ CVIdle
    /\ RidgeIdle
    /\ SGDIdle
    /\ LCIdle
    /\ EnetIdle
    /\ GCVIdle
    /\ SKFIdle
    /\ LabelOutIdle
    /\ ShuffleSplitIdle
    /\ SGDParamsIdle
    /\ MCIdle
    /\ RidgeClfCVIdle

NextTranslate ==
    \/ TranslateTrainSizes /\ UNCHANGED othersTranslate

SpecTranslate == InitTranslate /\ [][NextTranslate]_vars

othersLC ==
    <<kfVars, cvVars, rrVars, sgdVars, trVars, enVars, gcvVars, skVars, loVars, ssVars, spVars, mcVars, rcVars>>

InitLC ==
    /\ LCInit
    /\ KFoldIdle
    /\ CVIdle
    /\ RidgeIdle
    /\ SGDIdle
    /\ TranslateIdle
    /\ EnetIdle
    /\ GCVIdle
    /\ SKFIdle
    /\ LabelOutIdle
    /\ ShuffleSplitIdle
    /\ SGDParamsIdle
    /\ MCIdle
    /\ RidgeClfCVIdle

NextLC ==
    \/ LCPrepare /\ UNCHANGED othersLC
    \/ LCDispatch /\ UNCHANGED othersLC
    \/ LCFitEstimator /\ UNCHANGED othersLC
    \/ LCIncrementalStep /\ UNCHANGED othersLC
    \/ LCAggregate /\ UNCHANGED othersLC

SpecLC == InitLC /\ [][NextLC]_vars

othersEnet ==
    <<kfVars, cvVars, rrVars, sgdVars, trVars, lcVars, gcvVars, skVars, loVars, ssVars, spVars, mcVars, rcVars>>

InitEnet ==
    /\ EnetInit
    /\ KFoldIdle
    /\ CVIdle
    /\ RidgeIdle
    /\ SGDIdle
    /\ TranslateIdle
    /\ LCIdle
    /\ GCVIdle
    /\ SKFIdle
    /\ LabelOutIdle
    /\ ShuffleSplitIdle
    /\ SGDParamsIdle
    /\ MCIdle
    /\ RidgeClfCVIdle

NextEnet ==
    \/ EnetPathStart /\ UNCHANGED othersEnet
    \/ EnetPathSolve /\ UNCHANGED othersEnet
    \/ EnetPathReturn /\ UNCHANGED othersEnet

SpecEnet == InitEnet /\ [][NextEnet]_vars

othersGCV ==
    <<kfVars, cvVars, rrVars, sgdVars, trVars, lcVars, enVars, skVars, loVars, ssVars, spVars, mcVars, rcVars>>

InitGCV ==
    /\ GCVInit
    /\ KFoldIdle
    /\ CVIdle
    /\ RidgeIdle
    /\ SGDIdle
    /\ TranslateIdle
    /\ LCIdle
    /\ EnetIdle
    /\ SKFIdle
    /\ LabelOutIdle
    /\ ShuffleSplitIdle
    /\ SGDParamsIdle
    /\ MCIdle
    /\ RidgeClfCVIdle

NextGCV ==
    \/ RidgeGCVFit /\ UNCHANGED othersGCV

SpecGCV == InitGCV /\ [][NextGCV]_vars

othersSKF ==
    <<kfVars, cvVars, rrVars, sgdVars, trVars, lcVars, enVars, gcvVars, loVars, ssVars, spVars, mcVars, rcVars>>

InitSKF ==
    /\ SKFInit
    /\ KFoldIdle
    /\ CVIdle
    /\ RidgeIdle
    /\ SGDIdle
    /\ TranslateIdle
    /\ LCIdle
    /\ EnetIdle
    /\ GCVIdle
    /\ LabelOutIdle
    /\ ShuffleSplitIdle
    /\ SGDParamsIdle
    /\ MCIdle
    /\ RidgeClfCVIdle

NextSKF ==
    \/ SKFConstruct /\ UNCHANGED othersSKF
    \/ SKFYield /\ UNCHANGED othersSKF

SpecSKF == InitSKF /\ [][NextSKF]_vars

othersLabelOut ==
    <<kfVars, cvVars, rrVars, sgdVars, trVars, lcVars, enVars, gcvVars, skVars, ssVars, spVars, mcVars, rcVars>>

InitLabelOut ==
    /\ LabelOutInit
    /\ KFoldIdle
    /\ CVIdle
    /\ RidgeIdle
    /\ SGDIdle
    /\ TranslateIdle
    /\ LCIdle
    /\ EnetIdle
    /\ GCVIdle
    /\ SKFIdle
    /\ ShuffleSplitIdle
    /\ SGDParamsIdle
    /\ MCIdle
    /\ RidgeClfCVIdle

NextLabelOut ==
    \/ LabelOutConstruct /\ UNCHANGED othersLabelOut
    \/ CallerOverwritesLabels /\ UNCHANGED othersLabelOut
    \/ LabelOutYield /\ UNCHANGED othersLabelOut

SpecLabelOut == InitLabelOut /\ [][NextLabelOut]_vars

othersShuffleSplit ==
    <<kfVars, cvVars, rrVars, sgdVars, trVars, lcVars, enVars, gcvVars, skVars, loVars, spVars, mcVars, rcVars>>

InitShuffleSplit ==
    /\ ShuffleSplitInit
    /\ KFoldIdle
    /\ CVIdle
    /\ RidgeIdle
    /\ SGDIdle
    /\ TranslateIdle
    /\ LCIdle
    /\ EnetIdle
    /\ GCVIdle
    /\ SKFIdle
    /\ LabelOutIdle
    /\ SGDParamsIdle
    /\ MCIdle
    /\ RidgeClfCVIdle

NextShuffleSplit ==
    \/ ShuffleSplitConstruct /\ UNCHANGED othersShuffleSplit
    \/ ShuffleSplitYield /\ UNCHANGED othersShuffleSplit
    \/ ShuffleSplitIterateAgain /\ UNCHANGED othersShuffleSplit

SpecShuffleSplit == InitShuffleSplit /\ [][NextShuffleSplit]_vars

othersSGDParams ==
    <<kfVars, cvVars, rrVars, sgdVars, trVars, lcVars, enVars, gcvVars, skVars, loVars, ssVars, mcVars, rcVars>>

InitSGDParams ==
    /\ SGDParamsInit
    /\ KFoldIdle
    /\ CVIdle
    /\ RidgeIdle
    /\ SGDIdle
    /\ TranslateIdle
    /\ LCIdle
    /\ EnetIdle
    /\ GCVIdle
    /\ SKFIdle
    /\ LabelOutIdle
    /\ ShuffleSplitIdle
    /\ MCIdle
    /\ RidgeClfCVIdle

NextSGDParams ==
    \/ SGDConstruct /\ UNCHANGED othersSGDParams
    \/ SGDSetParams /\ UNCHANGED othersSGDParams
    \/ SGDParamsFit /\ UNCHANGED othersSGDParams

SpecSGDParams == InitSGDParams /\ [][NextSGDParams]_vars

othersMC ==
    <<kfVars, cvVars, rrVars, sgdVars, trVars, lcVars, enVars, gcvVars, skVars, loVars, ssVars, spVars, rcVars>>

InitMC ==
    /\ MCInit
    /\ KFoldIdle
    /\ CVIdle
    /\ RidgeIdle
    /\ SGDIdle
    /\ TranslateIdle
    /\ LCIdle
    /\ EnetIdle
    /\ GCVIdle
    /\ SKFIdle
    /\ LabelOutIdle
    /\ ShuffleSplitIdle
    /\ SGDParamsIdle
    /\ RidgeClfCVIdle

NextMC ==
    \/ MCTaskStep /\ UNCHANGED othersMC
    \/ MCCollect /\ UNCHANGED othersMC

SpecMC == InitMC /\ [][NextMC]_vars

othersRidgeClfCV ==
    <<kfVars, cvVars, rrVars, sgdVars, trVars, lcVars, enVars, gcvVars, skVars, loVars, ssVars, spVars, mcVars>>

InitRidgeClfCV ==
    /\ RidgeClfCVInit
    /\ KFoldIdle
    /\ CVIdle
    /\ RidgeIdle
    /\ SGDIdle
    /\ TranslateIdle
    /\ LCIdle
    /\ EnetIdle
    /\ GCVIdle
    /\ SKFIdle
    /\ LabelOutIdle
    /\ ShuffleSplitIdle
    /\ SGDParamsIdle
    /\ MCIdle

NextRidgeClfCV ==
    \/ RidgeClassifierCVFit /\ UNCHANGED othersRidgeClfCV

SpecRidgeClfCV == InitRidgeClfCV /\ [][NextRidgeClfCV]_vars

InitFolds ==
    \/ InitKFold
    \/ InitSKF
    \/ InitShuffleSplit

NextFolds ==
    \/ KFoldConstruct /\ UNCHANGED othersKFold
    \/ KFoldYield /\ UNCHANGED othersKFold
    \/ KFoldIterateAgain /\ UNCHANGED othersKFold
    \/ SKFConstruct /\ UNCHANGED othersSKF
    \/ SKFYield /\ UNCHANGED othersSKF
    \/ ShuffleSplitConstruct /\ UNCHANGED othersShuffleSplit
    \/ ShuffleSplitYield /\ UNCHANGED othersShuffleSplit
    \/ ShuffleSplitIterateAgain /\ UNCHANGED othersShuffleSplit

SpecFolds == InitFolds /\ [][NextFolds]_vars

----------------------------------------------------------------------------
(* Properties. *)

TestSets == {Range(kf_yielded[i].test) : i \in DOMAIN kf_yielded}

\* C1: for 2 <= k <= n, KFold(n, k) is constructed without error and yields
\* exactly k folds; in each fold train and test are disjoint and together
\* are {0..n-1}; the k test sets are pairwise disjoint, together are
\* {0..n-1}, and their sizes differ by at most 1.
C1_KFoldPartition ==
    /\ (kf_state # "new" /\ 2 <= kf_n_folds /\ kf_n_folds <= kf_n
          /\ ~kf_frac.n /\ ~kf_frac.n_folds) => kf_state = "ready"
    /\ Len(kf_yielded) <= kf_n_folds
    /\ \A i \in DOMAIN kf_yielded :
          /\ Range(kf_yielded[i].train) \cap Range(kf_yielded[i].test) = {}
          /\ Range(kf_yielded[i].train) \cup Range(kf_yielded[i].test) = 0..(kf_n - 1)
    /\ \A i, j \in DOMAIN kf_yielded :
          i # j => Range(kf_yielded[i].test) \cap Range(kf_yielded[j].test) = {}
    /\ KFoldExhausted =>
          /\ Len(kf_yielded) = kf_n_folds
          /\ UNION TestSets = 0..(kf_n - 1)
          /\ \A i, j \in DOMAIN kf_yielded :
                Len(kf_yielded[i].test) - Len(kf_yielded[j].test) <= 1

\* a shuffled KFold(4, 3) iterated to its end: folds of unequal size
C1_Witness ==
    /\ KFoldExhausted /\ kf_n = 4 /\ kf_n_folds = 3 /\ kf_shuffle
    /\ kf_idxs # arange(4)

\* the (l1_ratio, alpha) pairs of the grid and their mean test MSE
GridMse(l, a) == SumSeq([f \in 1..CvFolds |-> cv_mse[l][f][a]])

\* C2: after LinearModelCV.fit, (l1_ratio_, alpha_) is a grid point whose
\* mean test MSE over the folds is minimal over the whole grid, and coef_
\* comes from the refit on the full data at exactly that point.
C2_BestAlphaSelected ==
    cv_state = "fitted" =>
        /\ cv_alpha_ \in Range(cv_alphas)
        /\ cv_l1_ratio_ \in Range(cv_l1_ratios)
        /\ \A l \in Range(cv_l1_ratios) : \A a \in Range(cv_alphas) :
              GridMse(cv_l1_ratio_, cv_alpha_) <= GridMse(l, a)
        /\ cv_coef_ = [alpha |-> cv_alpha_, l1_ratio |-> cv_l1_ratio_,
                       data |-> "full"]

\* the Cholesky solve of the call was reached and raised LinAlgError
CholeskyFailed ==
    /\ rr_state \notin {"idle", "new"}
    /\ rr_in.samples_match /\ rr_in.alpha_ok
    /\ resolved_solver(rr_in) = "dense_cholesky"
    /\ rr_in.singular

\* C3: when the Cholesky solve raises LinAlgError, ridge_regression still
\* returns, and returns the SVD solution, in the primal and the kernel form.
C3_SvdFallback ==
    CholeskyFailed => (rr_state = "returned" /\ rr_coef = "svd")

\* C4: a solver name outside {auto, svd, dense_cholesky, lsqr, sparse_cg}
\* makes the call end in a ValueError with no solve attempted.
C4_UnknownSolverRejected ==
    (rr_state \notin {"idle", "new"} /\ rr_in.solver = "bogus") =>
        (rr_state = "ValueError" /\ rr_solves = <<>>)

\* e holds the coefficients and intercepts of an earlier training
Fitted(e) ==
    /\ e.coef_ # <<>> /\ e.intercept_ # <<>>
    /\ \A i \in DOMAIN e.coef_ : e.coef_[i].src = "sgd"
    /\ \A i \in DOMAIN e.intercept_ : e.intercept_[i].src = "sgd"

\* the last call was a successful fit, without coef_init / intercept_init,
\* on an estimator that had been fitted before
RefitDone ==
    /\ sgd_last.op = "fit" /\ sgd_last.error = "none"
    /\ ~sgd_last.init_given
    /\ Fitted(sgd_last.before)

\* C5 as stated: a warm-started fit hands plain_sgd the prior coef_,
\* intercept_ AND the prior t_; a cold fit restarts from zeros and a fresh t_.
C5_WarmStartKeepsT ==
    RefitDone =>
        IF sgd_params.warm_start
        THEN /\ sgd_last.start.coef = sgd_last.before.coef_
             /\ sgd_last.start.intercept = sgd_last.before.intercept_
             /\ sgd_last.start.t = sgd_last.before.t_
        ELSE /\ sgd_last.start.coef = zeros(Len(sgd_last.start.coef))
             /\ sgd_last.start.intercept = zeros(Len(sgd_last.start.intercept))
             /\ sgd_last.start.t = init_t(sgd_params.learning_rate)

\* C5 (amended): a warm-started fit (no coef_init / intercept_init passed)
\* on a fitted estimator hands plain_sgd the prior coef_ and intercept_,
\* but t_ is re-initialised by _init_t as in a first fit; a cold fit
\* restarts from zeros and a fresh t_.
C5_WarmStartKeepsCoefOnly ==
    RefitDone =>
        /\ sgd_last.start.t = init_t(sgd_params.learning_rate)
        /\ IF sgd_params.warm_start
           THEN /\ sgd_last.start.coef = sgd_last.before.coef_
                /\ sgd_last.start.intercept = sgd_last.before.intercept_
           ELSE /\ sgd_last.start.coef = zeros(Len(sgd_last.start.coef))
                /\ sgd_last.start.intercept = zeros(Len(sgd_last.start.intercept))

\* a warm-started multi-class refit: the prior t_ had advanced past its
\* initial value
C5_Witness ==
    /\ RefitDone /\ sgd_params.warm_start
    /\ sgd_params.kind = "classifier" /\ sgd_classes_ = 3
    /\ sgd_last.before.t_ > init_t(sgd_params.learning_rate)

\* C6: t_ is unset before the first call; a successful partial_fit on n
\* samples leaves t_ at its previous value (the initial value on the first
\* call) plus n; a successful fit leaves it at the initial value plus
\* n_iter * n; and no partial_fit call, failed or not, decreases t_.
C6_IterationCounter ==
    /\ sgd_calls = 0 => sgd_t_ = NoneT
    /\ (sgd_last.op = "partial_fit" /\ sgd_last.error = "none") =>
          sgd_t_ = sgd_last.n +
                   (IF sgd_last.before.t_ = NoneT
                    THEN init_t(sgd_params.learning_rate)
                    ELSE sgd_last.before.t_)
    /\ (sgd_last.op = "fit" /\ sgd_last.error = "none") =>
          sgd_t_ = init_t(sgd_params.learning_rate) + sgd_last.n_iter * sgd_last.n
    /\ (sgd_last.op = "partial_fit" /\ sgd_last.before.t_ # NoneT) =>
          sgd_t_ >= sgd_last.before.t_

\* a second successful partial_fit, on 2 samples, after a fit with n_iter = 2
C6_Witness ==
    /\ sgd_last.op = "partial_fit" /\ sgd_last.error = "none"
    /\ sgd_last.n = 2 /\ sgd_params.n_iter = 2
    /\ sgd_last.before.t_ = init_t(sgd_params.learning_rate) + 2
    /\ sgd_t_ = sgd_last.before.t_ + 2

\* floor(num * n / den) characterised without division: the q with
\* q * den <= num * n < (q + 1) * den
IsFloorOf(q, num, den, n) == q * den <= num * n /\ num * n < (q + 1) * den

\* v is what size number i of the argument must translate to
TranslatesTo(i, v) ==
    IF tr_train_sizes.dtype = "int" THEN v = tr_train_sizes.vals[i]
    ELSE \E q \in 0..tr_n_max :
            /\ IsFloorOf(q, tr_train_sizes.vals[i], tr_train_sizes.den, tr_n_max)
            /\ v = (IF q < 1 THEN 1 ELSE q)

\* every size of the argument is in range: a fraction in (0, 1], or an
\* integer in [1, n_max]
SizesValid ==
    \A i \in DOMAIN tr_train_sizes.vals :
        /\ tr_train_sizes.vals[i] >= 1
        /\ tr_train_sizes.vals[i] <=
              (IF tr_train_sizes.dtype = "float" THEN tr_train_sizes.den ELSE tr_n_max)

\* C7: for sizes in range _translate_train_sizes returns; the result holds
\* exactly the translations of the sizes (floor(f * n_max) clipped into
\* [1, n_max] for a fraction, the size itself for an integer), ascending
\* and without duplicates, all in [1, n_max]; and when two sizes translate
\* to the same value the warning is issued and the result is shorter than
\* the argument.
C7_TranslateTrainSizes ==
    /\ (tr_state \notin {"idle", "new"} /\ SizesValid) => tr_state = "returned"
    /\ tr_state = "returned" =>
          /\ SizesValid
          /\ \A i \in DOMAIN tr_train_sizes.vals :
                \E j \in DOMAIN tr_out : TranslatesTo(i, tr_out[j])
          /\ \A j \in DOMAIN tr_out :
                /\ 1 <= tr_out[j] /\ tr_out[j] <= tr_n_max
                /\ \E i \in DOMAIN tr_train_sizes.vals : TranslatesTo(i, tr_out[j])
          /\ \A j \in 1..(Len(tr_out) - 1) : tr_out[j] < tr_out[j + 1]
          /\ Len(tr_out) <= Len(tr_train_sizes.vals)
          /\ tr_warned <=> Len(tr_out) < Len(tr_train_sizes.vals)
          /\ (\E i, k \in DOMAIN tr_train_sizes.vals :
                 i # k /\ \E v \in 1..tr_n_max : TranslatesTo(i, v) /\ TranslatesTo(k, v))
             => (tr_warned /\ Len(tr_out) < Len(tr_train_sizes.vals))

\* ([0.25, 0.5, 1.0], 3): 0.75 is clipped up to 1 and collides with 1.5 -> 1
C7_Witness ==
    /\ tr_state = "returned" /\ tr_n_max = 3
    /\ tr_train_sizes = [dtype |-> "float", den |-> 4, vals |-> <<4, 1, 2>>]
    /\ tr_out = <<1, 3>> /\ tr_warned

\* v is what size number i of ts must translate to when the first fold has
\* n_max training samples
SizeTranslatesTo(ts, n_max, i, v) ==
    IF ts.dtype = "int" THEN v = ts.vals[i]
    ELSE \E q \in 0..n_max :
            /\ IsFloorOf(q, ts.vals[i], ts.den, n_max)
            /\ v = (IF q < 1 THEN 1 ELSE q)

\* an estimator trained on the first n samples of the training set of fold f
TrainedOnPrefix(f, n) == [trained |-> Slice(lc_in.cv[f].train, 0, n), fitted |-> TRUE]

\* the mean over all folds of the train (c = 1) or test (c = 2) score of an
\* estimator trained on the first n training samples of the fold
MeanOverFolds(n, c) ==
    mean([f \in 1..Len(lc_in.cv) |->
            score(TrainedOnPrefix(f, n),
                  IF c = 1 THEN Slice(lc_in.cv[f].train, 0, n) ELSE lc_in.cv[f].test)])

C9_PartialFitRequired ==
    (lc_pc \notin {"idle", "new"}
       /\ lc_in.exploit_incremental_learning /\ ~lc_in.has_partial_fit)
    => /\ lc_pc = "ValueError"
       /\ lc_error = "partial_fit"
       /\ lc_cv = <<>>
       /\ lc_clones = 0
       /\ lc_fits = <<>>
       /\ lc_out = <<>>
       /\ lc_tasks = <<>>
       /\ lc_result = <<>>

C9_Witness ==
    /\ lc_pc = "ValueError" /\ lc_error = "partial_fit"
    /\ lc_in.exploit_incremental_learning /\ ~lc_in.has_partial_fit
    /\ lc_in.train_sizes.dtype = "float"

RECURSIVE FitsOf(_, _)
\* the indices task t has trained on in its first k calls, in order
FitsOf(t, k) ==
    IF k = 0 THEN <<>> ELSE FitsOf(t, k - 1) \o lc_fits[t][k]

\* C10: no step of learning_curve changes the caller's estimator, in either
\* mode; one clone is made per dispatched task, every fit and partial_fit
\* belongs to a dispatched task, and the estimator a task trains and scores
\* has been trained on nothing but what that task fed it since its clone.
C10_CallerEstimatorUntouched ==
    /\ [][lc_base' = lc_base]_vars
    /\ [](lc_pc \in {"running", "done"} =>
            /\ lc_clones = lc_next - 1
            /\ DOMAIN lc_fits = 1..(lc_next - 1)
            /\ \A u \in DOMAIN lc_tasks :
                  lc_tasks[u].estimator.trained = FitsOf(u, Len(lc_fits[u])))

\* learning_curve has returned after fitting clones of an estimator that the
\* caller had already fitted, and that estimator still is as it was
C10_Witness ==
    /\ lc_pc = "done"
    /\ lc_base = fit(Unfit, <<0>>)
    /\ lc_clones >= 2
    /\ \A u \in DOMAIN lc_fits : Len(lc_fits[u]) >= 1

CountOf(s, v) == Cardinality({i \in DOMAIN s : s[i] = v})

\* entry i of the path holds the coefficients and the dual gap of the solve
\* made for alphas[i]
SolvedFor(alphas, coefs, dual_gaps, i) ==
    /\ coefs[i].src = "cd" /\ coefs[i].alpha = alphas[i] /\ coefs[i].idx = i
    /\ coefs[i].n = en_in.n_features
    /\ dual_gaps[i].src = "gap" /\ dual_gaps[i].alpha = alphas[i]
    /\ dual_gaps[i].idx = i

C12_NonConvergenceTolerated ==
    en_warnings # {} =>
        /\ en_pc \in {"loop", "returned"}
        /\ \A i \in en_warnings :
              /\ SolvedFor(en_alphas, en_coefs, en_dual_gaps, i)
              /\ ~en_dual_gaps[i].converged
        /\ (en_pc = "returned" /\ ~en_in.return_models) =>
              /\ Len(en_result.coefs) = Len(en_alphas)
              /\ \A i \in DOMAIN en_alphas :
                    SolvedFor(en_result.alphas, en_result.coefs, en_result.dual_gaps, i)

\* the position of the selected alpha among the candidates
SelectedIndex == CHOOSE i \in DOMAIN gcv_in.alphas : gcv_in.alphas[i] = gcv_alpha_

\* C13: after _RidgeGCV.fit, alpha_ is one of the candidates; with no scorer
\* its mean leave-one-out squared error is the smallest and every earlier
\* candidate has a larger one; with a scorer its scorer value on the
\* leave-one-out predictions is the largest; and dual_coef_ and coef_ are
\* those computed for alpha_.
C13_GcvSelectsBestAlpha ==
    gcv_state = "fitted" =>
        /\ gcv_alpha_ \in Range(gcv_in.alphas)
        /\ ~gcv_in.scorer =>
              /\ \A j \in DOMAIN gcv_in.alphas :
                    cv_mean(gcv_in, SelectedIndex) <= cv_mean(gcv_in, j)
              /\ \A j \in 1..(SelectedIndex - 1) :
                    cv_mean(gcv_in, j) > cv_mean(gcv_in, SelectedIndex)
        /\ gcv_in.scorer =>
              \A j \in DOMAIN gcv_in.alphas :
                 scorer_value(gcv_in, SelectedIndex) >= scorer_value(gcv_in, j)
        /\ gcv_dual_coef_.alpha = gcv_alpha_
        /\ gcv_dual_coef_.idx = SelectedIndex
        /\ gcv_coef_ = gcv_coef(gcv_dual_coef_)

\* with a scorer, the second candidate is selected although the first has
\* the smaller sum
C13_Witness ==
    /\ gcv_state = "fitted" /\ gcv_in.scorer
    /\ gcv_in.alphas = <<2, 1>>
    /\ gcv_alpha_ = 1
    /\ scorer_value(gcv_in, 2) > scorer_value(gcv_in, 1)

C15_FoldArgumentsRejected ==
    /\ (kf_state \notin {"idle", "new"}
          /\ (kf_n_folds <= 1 \/ kf_n_folds > kf_n \/ kf_frac.n \/ kf_frac.n_folds))
       => (kf_state = "ValueError" /\ kf_yielded = <<>> /\ kf_idxs = <<>>)
    /\ (sk_state \notin {"idle", "new"} /\ (sk_n_folds <= 1 \/ sk_frac))
       => (sk_state = "ValueError" /\ sk_yielded = <<>> /\ sk_test_folds = <<>>)

\* KFold(2.5, 2)
C15_Witness ==
    /\ kf_state = "ValueError"
    /\ kf_n = 2 /\ kf_frac.n /\ kf_n_folds = 2 /\ ~kf_frac.n_folds

SkTestSets == {Range(sk_yielded[i].test) : i \in DOMAIN sk_yielded}

\* some class of the labels has fewer than n_folds members
SmallClass ==
    \E l \in Range(sk_labels) :
       Cardinality({j \in DOMAIN sk_labels : sk_labels[j] = l}) < sk_n_folds

\* what C16 promises of a constructed StratifiedKFold: one warning, at most
\* n_folds pairs, each a split of {0..n-1}; after n_folds pairs the test sets
\* are pairwise disjoint and cover {0..n-1}
SkDegradesGracefully ==
    /\ sk_state = "ready"
    /\ sk_warnings = 1
    /\ Len(sk_yielded) <= sk_n_folds
    /\ \A i \in DOMAIN sk_yielded :
          /\ Range(sk_yielded[i].train) \cap Range(sk_yielded[i].test) = {}
          /\ Range(sk_yielded[i].train) \cup Range(sk_yielded[i].test)
                = 0..(Len(sk_labels) - 1)
    /\ Len(sk_yielded) = sk_n_folds =>
          /\ UNION SkTestSets = 0..(Len(sk_labels) - 1)
          /\ \A i, j \in DOMAIN sk_yielded :
                i # j => Range(sk_yielded[i].test) \cap Range(sk_yielded[j].test) = {}

C17_LabelsSnapshot ==
    lo_state = "ready" =>
        LET expected == LabelOutList(lo_kind, lo_given, lo_p)
        IN  /\ Len(lo_yielded) <= Len(expected)
            /\ \A i \in DOMAIN lo_yielded : lo_yielded[i] = expected[i]

\* LeavePLabelOut([0, 1, 2], p=2) iterated to its end after labels[:] = 0
C17_Witness ==
    /\ lo_state = "ready" /\ lo_kind = "LeavePLabelOut" /\ lo_p = 2
    /\ lo_given = <<0, 1, 2>> /\ lo_caller = <<0, 0, 0>>
    /\ Len(lo_yielded) = 3
    /\ lo_yielded[1].test = <<0, 1>>
    /\ lo_yielded[3].test = <<1, 2>>

\* C18: in a second iteration over the same object, the pairs yielded so far
\* are the first pairs of the first iteration, which was complete; this for a
\* KFold without shuffling and for a ShuffleSplit whose random_state is an
\* integer seed.
C18_SecondIterationIdentical ==
    /\ (kf_pass = 2 /\ ~kf_shuffle) =>
          /\ Len(kf_first) = kf_n_folds
          /\ Len(kf_yielded) <= Len(kf_first)
          /\ \A i \in DOMAIN kf_yielded : kf_yielded[i] = kf_first[i]
    /\ (ss_pass = 2 /\ ss_random_state.kind = "int") =>
          /\ Len(ss_first) = ss_n_iter
          /\ Len(ss_yielded) <= Len(ss_first)
          /\ \A i \in DOMAIN ss_yielded : ss_yielded[i] = ss_first[i]

\* a seeded ShuffleSplit iterated twice to the end, whose two rounds drew
\* different permutations
C18_Witness ==
    /\ ss_pass = 2 /\ ss_random_state.kind = "int"
    /\ ss_n_iter = 2 /\ Len(ss_yielded) = 2
    /\ ss_yielded[1] # ss_yielded[2]
    /\ ss_yielded = ss_first


\* the arguments of the last call are ones the documentation says are
\* rejected: y or sample_weight of another length than X, or a coef_init /
\* intercept_init whose shape is not that of the data
WrongShape(init, n_classes) == init # <<>> /\ Len(init) # NRows(n_classes)

BadFitCall ==
    /\ sgd_last.op \in {"fit", "partial_fit"}
    /\ \/ sgd_last.args.defect # "none"
       \/ /\ sgd_last.op = "fit"
          /\ \/ WrongShape(sgd_last.args.coef_init, sgd_last.args.classes)
             \/ WrongShape(sgd_last.args.intercept_init, sgd_last.args.classes)

\* C19: a fit or partial_fit call with mismatching X / y lengths, a
\* sample_weight of the wrong length or a coef_init / intercept_init of the
\* wrong shape raises ValueError, and plain_sgd was not invoked by that call
C19_BadFitCallRejected ==
    BadFitCall => sgd_last.error = "ValueError" /\ sgd_last.start = NoStart

\* the hyper-parameters are ones the documentation says are rejected
BadParams(kind, p) ==
    \/ p.loss \notin loss_functions(kind)
    \/ lower(p.penalty) \notin PENALTY_TYPES
    \/ p.learning_rate \notin LEARNING_RATE_TYPES
    \/ p.n_iter <= 0
    \/ p.l1_ratio < 0 \/ p.l1_ratio > SpDen
    \/ p.alpha < 0
    \/ p.shuffle \notin {"True", "False"}
    \/ p.eta0 <= 0 /\ p.learning_rate \in {"constant", "invscaling"}

\* C20: a constructor or set_params call that leaves an unsupported loss,
\* penalty or learning-rate name, n_iter <= 0, l1_ratio outside [0, 1],
\* alpha < 0, a non-boolean shuffle, or eta0 <= 0 under the constant or
\* invscaling schedule raises ValueError in that very call
C20_BadParamsRejectedAtCall ==
    (sp_last.op \in {"construct", "set_params"}
        /\ BadParams(sp_kind, sp_last.given))
    => sp_last.error = "ValueError"

C20_Witness ==
    /\ sp_last.op = "set_params"
    /\ sp_state = "constructed"
    /\ sp_last.given.loss = "bogus"
    /\ sp_last.error = "ValueError"

\* the last call was fit(X, y, coef_init=c, intercept_init=b) with c and b
\* of the shape of the data, and it returned
FitWithInit ==
    /\ sgd_last.op = "fit"
    /\ sgd_last.error = "none"
    /\ sgd_last.args.coef_init # <<>>
    /\ sgd_last.args.intercept_init # <<>>
    /\ ~WrongShape(sgd_last.args.coef_init, sgd_last.args.classes)
    /\ ~WrongShape(sgd_last.args.intercept_init, sgd_last.args.classes)

\* C21: fit called with coef_init=c and intercept_init=b hands c and b to
\* plain_sgd as the starting coefficients and intercept, whatever the state
\* of the estimator before the call
C21_InitHonoured ==
    FitWithInit => /\ sgd_last.start.coef = sgd_last.args.coef_init
                   /\ sgd_last.start.intercept = sgd_last.args.intercept_init

\* C28: when a fit or partial_fit call ends in a validation error, coef_,
\* intercept_, t_ and classes_ are what they were before the call
C28_FailedCallLeavesState ==
    (sgd_last.op \in {"fit", "partial_fit"} /\ sgd_last.error = "ValueError")
    => Estimator = sgd_last.before

\* what task i computes when it runs alone on the estimator as dispatched
McStart(i) ==
    IF mc_in.init_given THEN UserRow(i) ELSE ZeroRow

McExpected(i) ==
    plain_sgd(McStart(i), McStart(i),
              [j \in 1..mc_in.n_samples |-> IF mc_in.y[j] = i THEN 1 ELSE -1],
              mc_in.n_iter, init_t(mc_in.learning_rate))

\* C27: every per-class task relabels class i as +1 and the rest as -1 and
\* starts from row i and the dispatched t_; while tasks run t_ stays as
\* dispatched; at the end row i of coef_ and entry i of intercept_ are the
\* result task i computes on its own, whatever the order of the tasks, and
\* t_ has advanced once by n_iter * n_samples
C27_MulticlassTasksIndependent ==
    /\ mc_pc = "dispatch" =>
          /\ mc_t_ = init_t(mc_in.learning_rate)
          /\ \A i \in 1..mc_in.n_classes :
                mc_tasks[i].state = "done" =>
                    mc_tasks[i].result = McExpected(i)
    /\ mc_pc = "done" =>
          /\ \A i \in 1..mc_in.n_classes :
                /\ mc_coef_[i] = McExpected(i).coef
                /\ mc_intercept_[i] = McExpected(i).intercept
          /\ mc_t_ = init_t(mc_in.learning_rate)
                         + mc_in.n_iter * mc_in.n_samples

C27_Witness ==
    /\ mc_pc = "done"
    /\ mc_in.n_iter > 1
    /\ mc_in.n_samples > 1
    /\ \E j, k \in 1..mc_in.n_samples : mc_in.y[j] # mc_in.y[k]

\* C26: the solve for the first alpha of the path starts from coef_init, or
\* from zeros when none was given, and the solve for every later alpha
\* starts from the coefficients returned for the alpha before it
C26_WarmStartChain ==
    \A i \in DOMAIN en_starts :
        /\ i = 1 => en_starts[i] = IF en_in.coef_init
                                   THEN InitCoef(en_in.n_features)
                                   ELSE ZeroCoef(en_in.n_features)
        /\ i > 1 => /\ en_starts[i].src = "cd"
                    /\ en_starts[i].idx = i - 1
                    /\ en_starts[i].alpha = en_alphas[i - 1]
                    /\ en_starts[i] = en_coefs[i - 1]

C26_Witness ==
    /\ en_pc = "returned"
    /\ en_in.coef_init
    /\ Len(en_starts) = 2
    /\ en_alphas = <<2, 1>>

\* C29: with return_models=True the call returns one model per alpha, in
\* descending order of alpha, and model i holds the coefficients and the
\* dual gap of the solve made for its own alpha
C29_ModelsOwnDualGap ==
    (en_pc = "returned" /\ en_in.return_models) =>
        LET models == en_result.models
        IN  /\ Len(models) = Len(en_alphas)
            /\ \A i \in 1..(Len(models) - 1) :
                  models[i].alpha >= models[i + 1].alpha
            /\ \A i \in DOMAIN models :
                  /\ models[i].alpha = en_alphas[i]
                  /\ models[i].coef_.src = "cd"
                  /\ models[i].coef_.alpha = models[i].alpha
                  /\ models[i].coef_.idx = i
                  /\ models[i].dual_gap_.src = "gap"
                  /\ models[i].dual_gap_.alpha = models[i].alpha
                  /\ models[i].dual_gap_.idx = i

\* a call with solver='auto' that passed the argument checks
AutoSolve ==
    /\ rr_state \notin {"idle", "new", "ValueError"}
    /\ rr_in.solver = "auto"

\* the first solve of the call is the Cholesky closed form: on the kernel
\* when n_features > n_samples or sample weights are given, on the primal
\* normal equations otherwise
CholeskyForm ==
    /\ rr_solves # <<>>
    /\ rr_solves[1] = IF rr_in.wide \/ rr_in.has_sw
                      THEN "_solve_dense_cholesky_kernel"
                      ELSE "_solve_dense_cholesky"
    /\ rr_system = "none"

\* the call ran conjugate gradient, on the n_samples-sized system when
\* n_features > n_samples and on the n_features-sized system otherwise
ConjugateGradient ==
    /\ rr_solves = <<"_solve_sparse_cg">>
    /\ rr_coef = "sparse_cg"
    /\ rr_system = IF rr_in.wide THEN "n_samples" ELSE "n_features"

\* C25 as stated: with solver='auto', dense array input is solved by the
\* Cholesky closed form and sparse or LinearOperator input by conjugate
\* gradient, oriented by whether n_features > n_samples
C25_AutoSolverAsStated ==
    AutoSolve => /\ rr_in.dense => CholeskyForm
                 /\ ~rr_in.dense => ConjugateGradient

\* C25 amended: sparse or LinearOperator input goes to conjugate gradient
\* only when no sample weights are given; with sample weights every input
\* is solved by the Cholesky closed form on the kernel
C25_AutoSolver ==
    AutoSolve => /\ (rr_in.dense \/ rr_in.has_sw) => CholeskyForm
                 /\ (~rr_in.dense /\ ~rr_in.has_sw) => ConjugateGradient

C25_Witness ==
    /\ AutoSolve
    /\ ~rr_in.dense /\ ~rr_in.has_sw /\ rr_in.wide
    /\ rr_state = "returned"
    /\ rr_system = "n_samples"

\* n training samples of fold f were used for the size reported at tick i
UsedAsReported(n, f, i) ==
    /\ n = lc_result.train_sizes_abs[i]
    /\ 1 <= n /\ n <= Len(lc_cv[f].train)

\* C22: when learning_curve has returned, for every fold and every tick the
\* estimator scored at that tick was fitted on exactly train_sizes_abs[i]
\* samples, a number between 1 and the size of that fold's training set
C22_ReportedSizesUsed ==
    lc_pc = "done" =>
        \A t \in DOMAIN lc_fits :
            IF lc_in.exploit_incremental_learning
            THEN \A i \in DOMAIN lc_fits[t] :
                    UsedAsReported(Len(FitsOf(t, i)), t, i)
            ELSE UsedAsReported(Len(lc_fits[t][1]), TaskFold(t), TaskTick(t))

\* s_i of fold f, with s_0 = 0, limited to the length of the fold's
\* training set as a python slice bound is
SliceBound(f, i) ==
    LET s == IF i = 0 THEN 0 ELSE lc_train_sizes_abs[i]
    IN  IF s > Len(lc_cv[f].train) THEN Len(lc_cv[f].train) ELSE s

\* the indices train[a:b] of fold f, a <= b within the training set
TrainRange(f, a, b) == [k \in 1..(b - a) |-> lc_cv[f].train[a + k]]

\* C23: in incremental mode one clone is made per fold; the i-th partial_fit
\* of fold f is on train[s_(i-1):s_i]; after it the estimator has been
\* trained on exactly train[:s_i], no index twice; and when learning_curve
\* returns every fold has had one partial_fit per tick
C23_IncrementalSlices ==
    (lc_pc \in {"running", "done"} /\ lc_in.exploit_incremental_learning) =>
        /\ lc_clones <= Len(lc_cv)
        /\ \A f \in DOMAIN lc_fits :
              /\ Len(lc_fits[f]) <= Len(lc_train_sizes_abs)
              /\ \A i \in DOMAIN lc_fits[f] :
                    /\ lc_fits[f][i] =
                          TrainRange(f, SliceBound(f, i - 1), SliceBound(f, i))
                    /\ FitsOf(f, i) = TrainRange(f, 0, SliceBound(f, i))
                    /\ \A j, k \in DOMAIN FitsOf(f, i) :
                          j # k => FitsOf(f, i)[j] # FitsOf(f, i)[k]
              /\ f \in DOMAIN lc_tasks =>
                    lc_tasks[f].estimator.trained =
                        TrainRange(f, 0, SliceBound(f, Len(lc_fits[f])))
        /\ lc_pc = "done" =>
              /\ lc_clones = Len(lc_cv)
              /\ DOMAIN lc_fits = DOMAIN lc_cv
              /\ \A f \in DOMAIN lc_fits :
                    Len(lc_fits[f]) = Len(lc_train_sizes_abs)

C23_Witness ==
    /\ lc_pc = "done" /\ lc_in.exploit_incremental_learning
    /\ lc_train_sizes_abs = <<1, 2>>
    /\ Len(lc_cv) = 3
    /\ lc_fits[3] = <<<<lc_cv[3].train[1]>>, <<lc_cv[3].train[2]>>>>

\* the (train_score, test_score) of fold f at tick i
ScoresOf(f, i) ==
    LET n == lc_train_sizes_abs[i]
    IN  <<score(TrainedOnPrefix(f, n), Slice(lc_in.cv[f].train, 0, n)),
          score(TrainedOnPrefix(f, n), lc_in.cv[f].test)>>

\* C24: the means exist only once every dispatched task has returned; every
\* returned result sits at the place of its own fold and tick, in whatever
\* order the tasks ran and completed; and the returned scores are the means
\* over the folds of those results
C24_OrderIndependent ==
    /\ lc_result # <<>> =>
          /\ lc_tasks = <<>>
          /\ DOMAIN lc_out = 1..NTasks
          /\ \A j \in DOMAIN lc_result.train_sizes_abs :
                /\ lc_result.train_scores[j] =
                      mean([f \in 1..Len(lc_cv) |-> ScoresOf(f, j)[1]])
                /\ lc_result.test_scores[j] =
                      mean([f \in 1..Len(lc_cv) |-> ScoresOf(f, j)[2]])
    /\ lc_pc \in {"running", "done"} =>
          \A f \in DOMAIN lc_cv : \A i \in DOMAIN lc_train_sizes_abs :
              IF lc_in.exploit_incremental_learning
              THEN f \in DOMAIN lc_out => lc_out[f][i] = ScoresOf(f, i)
              ELSE LET t == (f - 1) * Len(lc_train_sizes_abs) + i
                   IN  t \in DOMAIN lc_out => lc_out[t] = ScoresOf(f, i)

\* a later task has returned while an earlier one is still running
C24_Witness ==
    /\ lc_pc = "running"
    /\ 1 \in DOMAIN lc_tasks
    /\ 2 \in DOMAIN lc_out
    /\ Len(lc_train_sizes_abs) = 2

\* C30: after RidgeClassifierCV.fit the caller's sample_weight holds the
\* values it held before the call, and a second fit with the same arguments
\* uses the same effective sample weights as the first
C30_SampleWeightUntouched ==
    rc_used # <<>> =>
        /\ rc_sample_weight = rc_in.sample_weight
        /\ \A k \in DOMAIN rc_used : rc_used[k] = rc_used[1]

====
